---- MODULE Spec2Model ----
(***************************************************************************)
(* A model of syzygy's zap_timestamp (zap_timestamp.cc): the PE scan that  *)
(* fills the patch address space, the GUID hash over the unpatched bytes,  *)
(* the PDB update, and the two writers.  Files are byte arrays, the patch  *)
(* address space is the set of (range, data) pairs of the ordered map, and *)
(* a patch entry's data is the name of the member it points to.            *)
(***************************************************************************)
EXTENDS Integers, Sequences, FiniteSets, TLC

\* ------------------------------------------------------------- bounds ----
\* The largest number of elements of the Debug Directory of an input PE.
MaxDebug == 2
\* How many C library / collaborator calls may fail during one run.
MaxFaults == 1
\* The number of bytes of an input PE after its last structure.
TailLen == 3
\* How many module info records, section contributions and symbol records
\* the streams of an input PDB hold.
MaxModules == 2
MaxContribs == 2
MaxRecords == 2
\* How many records a FunctionCallLogger writes to its segment.
MaxAllocations == 5

\* -------------------------------------------------- program constants ----
timestamp_data_ == 1262304000
pdb_age_data_ == 1
SizeofDWORD == 4
SizeofGuid == 16
SizeofBuffer == 4096
IMAGE_DEBUG_TYPE_CODEVIEW == 2
kPdbOldDirectoryStream == 0
kPdbHeaderInfoStream == 1
kDbiStream == 3
kPubSymPadOffset == 24

\* Offsets of the members the code names, as the compiler lays them out.
Offsets ==
  [ NtTimeDateStamp |-> 8,       \* IMAGE_NT_HEADERS.FileHeader.TimeDateStamp
    NtCheckSum |-> 88,           \* IMAGE_NT_HEADERS.OptionalHeader.CheckSum
    DirTimeDateStamp |-> 4,      \* IMAGE_{EXPORT,RESOURCE}_DIRECTORY.TimeDateStamp
    DebugSize |-> 28,            \* sizeof(IMAGE_DEBUG_DIRECTORY)
    DebugTimeDateStamp |-> 4,    \* IMAGE_DEBUG_DIRECTORY.TimeDateStamp
    DebugType |-> 12,            \* IMAGE_DEBUG_DIRECTORY.Type
    CvSignature |-> 4,           \* CvInfoPdb70.signature
    CvPdbAge |-> 20,             \* CvInfoPdb70.pdb_age
    PdbTimestamp |-> 4,          \* PdbInfoHeader70.timestamp
    CvSize |-> 28 ]              \* a CvInfoPdb70 with a short path

\* --------------------------------------------------------- bytes ---------
Byte == 0..255

\* The little-endian bytes of a 32-bit value, as the members lie in memory.
LE32(v) ==
  << v % 256, (v \div 256) % 256, (v \div 65536) % 256, (v \div 16777216) % 256 >>

\* A file is the sequence of its bytes: offset o of a file f is f[o + 1].
FileSize(f) == Len(f)

\* The bytes [off, off+n) of a file.
Slice(f, off, n) == SubSeq(f, off + 1, off + n)

\* The file with the sequence s stored at offset off (offsets past the end of
\* the file are not created: every stored range of the model lies inside).
Poke(f, off, s) ==
  SubSeq(f, 1, off) \o s \o SubSeq(f, off + Len(s) + 1, Len(f))

\* The 32-bit value at offset off.
ReadLE32(f, off) ==
  f[off + 1] + 256 * f[off + 2] + 65536 * f[off + 3] + 16777216 * f[off + 4]

\* ------------------------------------------------- the input PE ----------
\* Where the blocks of the input image lie.  The headers are mapped one to
\* one; section A holds the export directory, the debug directory and the
\* CodeView record; section B holds the resource directory.
Lay ==
  [ HeaderSize |-> 160, Nt |-> 64,
    SecARva |-> 4096, SecAOff |-> 160,
    SecBRva |-> 8192, SecBSize |-> 8 ]

ExportRva == Lay.SecARva
DebugRva == Lay.SecARva + 8
CvRva == DebugRva + MaxDebug * Offsets.DebugSize
SecASize == 8 + MaxDebug * Offsets.DebugSize + Offsets.CvSize
ResourceRva == Lay.SecBRva
SecBOffPlain == Lay.SecAOff + SecASize
FileLen == SecBOffPlain + Lay.SecBSize + TailLen

NoAddr == 0 - 1

\* PEFile::Translate: the file offset of a relative address, NoAddr when no
\* section maps it.  im is the input's section table (secASize, secBOff).
Translate(im, rva) ==
  IF rva >= 0 /\ rva < Lay.HeaderSize THEN rva
  ELSE IF rva >= Lay.SecARva /\ rva < Lay.SecARva + im.secASize
    THEN Lay.SecAOff + (rva - Lay.SecARva)
  ELSE IF rva >= Lay.SecBRva /\ rva < Lay.SecBRva + Lay.SecBSize /\ im.secBOff # NoAddr
    THEN im.secBOff + (rva - Lay.SecBRva)
  ELSE NoAddr

\* The bytes an input file holds outside the fields the model sets.
Filler(o) == ((o * 37 + 11) % 251) + 1

\* The values the linker left in the input's fields.
Old ==
  [ Timestamp |-> 1588444911, Age |-> 5,
    Guid |-> [i \in 1..SizeofGuid |-> 16 + i] ]

NoDir == "absent"

\* The section tables of the inputs: plain; B's raw data lying over A's (on
\* the export timestamp, between it and the first debug timestamp, half over
\* the first debug timestamp); B without raw data; A cut before the CodeView
\* record.
SectionTables ==
  { [secASize |-> SecASize, secBOff |-> SecBOffPlain],
    [secASize |-> SecASize, secBOff |-> Lay.SecAOff],
    [secASize |-> SecASize, secBOff |-> Lay.SecAOff + 4],
    [secASize |-> SecASize, secBOff |-> Lay.SecAOff + 6],
    [secASize |-> SecASize, secBOff |-> NoAddr],
    [secASize |-> SecASize - Offsets.CvSize, secBOff |-> SecBOffPlain] }

DebugTypes == {IMAGE_DEBUG_TYPE_CODEVIEW, 4}

DebugLists == UNION { [1..n -> DebugTypes] : n \in 0..MaxDebug }

\* What the parser fails on, if anything: the image itself, the DOS header
\* cast, the reference to the NT headers, to a data directory, to the
\* CodeView record.
Defects == {"none", "parse", "dos", "nt", "export", "resource", "cv"}

DirStates == {NoDir, "zero", "nonzero"}

AllImages ==
  [ table : SectionTables, export : DirStates, resource : DirStates,
    debug : DebugLists, defect : Defects ]

PlainTable == [secASize |-> SecASize, secBOff |-> SecBOffPlain]

\* The input images of the model: every directory combination on the plain
\* section table, the other section tables with and without a CodeView
\* entry, and each parser defect on an image that has every directory.
Images ==
  { im \in AllImages :
      \/ im.table = PlainTable /\ im.defect = "none"
      \/ /\ im.table # PlainTable /\ im.defect = "none"
         /\ im.export # "zero" /\ im.resource # "zero"
         /\ im.debug \in {<< >>, <<IMAGE_DEBUG_TYPE_CODEVIEW>>}
      \/ /\ im.table = PlainTable /\ im.defect # "none"
         /\ im.export = "nonzero" /\ im.resource = "nonzero"
         /\ im.debug = <<IMAGE_DEBUG_TYPE_CODEVIEW>> }

DirValue(state) == IF state = "zero" THEN 0 ELSE Old.Timestamp

DebugElemRva(i) == DebugRva + i * Offsets.DebugSize

\* Stores s at the file offset of rva when a section maps it.
PokeRva(im, f, rva, s) ==
  IF Translate(im.table, rva) = NoAddr THEN f
  ELSE Poke(f, Translate(im.table, rva), s)

RECURSIVE PokeDebugTypes(_, _, _)
PokeDebugTypes(im, f, i) ==
  IF i >= Len(im.debug) THEN f
  ELSE PokeDebugTypes(im,
         PokeRva(im, f, DebugElemRva(i) + Offsets.DebugType, LE32(im.debug[i + 1])),
         i + 1)

\* The bytes of the input image im as the linker wrote it.
ImageBytes(im) ==
  LET f0 == SubSeq([i \in 1..FileLen |-> Filler(i - 1)], 1, FileLen)
      f1 == IF im.export = NoDir THEN f0
            ELSE PokeRva(im, f0, ExportRva + Offsets.DirTimeDateStamp,
                         LE32(DirValue(im.export)))
      f2 == PokeDebugTypes(im, f1, 0)
      f3 == PokeRva(im, PokeRva(im, f2, CvRva + Offsets.CvSignature, Old.Guid),
                    CvRva + Offsets.CvPdbAge, LE32(Old.Age))
  IN  IF im.resource = NoDir THEN f3
      ELSE PokeRva(im, f3, ResourceRva + Offsets.DirTimeDateStamp,
                   LE32(DirValue(im.resource)))

\* ------------------------------------------------- PDB streams -----------
\* A stream is a sequence of bytes; offset o of a stream s is s[o + 1].
Null == << 0 - 1 >>

PokeSeq(s, off, b) ==
  SubSeq(s, 1, off) \o b \o SubSeq(s, off + Len(b) + 1, Len(s))

\* WritablePdbStream::Write at position off: the stream grows when the
\* write ends past its end.
WriteSeq(s, off, b) ==
  IF off > Len(s)
    THEN s \o SubSeq([i \in 1..(off - Len(s)) |-> 0], 1, off - Len(s)) \o b
  ELSE SubSeq(s, 1, off) \o b \o SubSeq(s, off + Len(b) + 1, Len(s))

ReadSeqLE32(s, off) ==
  s[off + 1] + 256 * s[off + 2] + 65536 * s[off + 3] + 16777216 * s[off + 4]

ReadSeqLE16(s, off) == s[off + 1] + 256 * s[off + 2]

LE16(v) == << v % 256, (v \div 256) % 256 >>

\* Layout of pdb::DbiHeader, pdb::DbiModuleInfoBase, pdb::DbiSectionContrib.
Dbi ==
  [ HeaderSize |-> 64, Age |-> 8, PublicSymbolInfoStream |-> 16,
    SymbolRecordStream |-> 20, GpModiSize |-> 24, SectionContributionSize |-> 28,
    ModuleInfoSize |-> 64, ModuleOffsets |-> 52,
    ContribSize |-> 28, Pad1 |-> 2, Pad2 |-> 18 ]

\* The position after the NUL that ends the string at pos, NoAddr when the
\* scan leaves the stream before it finds one.
RECURSIVE SkipString(_, _)
SkipString(s, pos) ==
  IF pos >= Len(s) THEN NoAddr
  ELSE IF s[pos + 1] = 0 THEN pos + 1
  ELSE SkipString(s, pos + 1)

\* The module information loop without the rounding up to a multiple of 4.
RECURSIVE ModuleInfoWalkUnaligned(_, _, _)
ModuleInfoWalkUnaligned(s, pos, end) ==
  IF pos >= end THEN [data |-> s, pos |-> pos, oob |-> FALSE]
  ELSE IF pos + Dbi.ModuleOffsets + SizeofDWORD > Len(s)
    THEN [data |-> s, pos |-> pos, oob |-> TRUE]
  ELSE LET s1 == PokeSeq(s, pos + Dbi.ModuleOffsets, LE32(0))
           p1 == SkipString(s1, pos + Dbi.ModuleInfoSize)
           p2 == IF p1 = NoAddr THEN NoAddr ELSE SkipString(s1, p1)
       IN  IF p2 = NoAddr THEN [data |-> s1, pos |-> pos, oob |-> TRUE]
           ELSE ModuleInfoWalkUnaligned(s1, p2, end)

\* The module information loop (lines 406-422) from position pos: the bytes,
\* the position it stops at, and whether it touched a byte outside s.
RECURSIVE ModuleInfoWalk(_, _, _)
ModuleInfoWalk(s, pos, end) ==
  IF pos >= end THEN [data |-> s, pos |-> pos, oob |-> FALSE]
  ELSE IF pos + Dbi.ModuleOffsets + SizeofDWORD > Len(s)
    THEN [data |-> s, pos |-> pos, oob |-> TRUE]
  ELSE LET s1 == PokeSeq(s, pos + Dbi.ModuleOffsets, LE32(0))
           p1 == SkipString(s1, pos + Dbi.ModuleInfoSize)
           p2 == IF p1 = NoAddr THEN NoAddr ELSE SkipString(s1, p1)
       IN  IF p2 = NoAddr THEN [data |-> s1, pos |-> pos, oob |-> TRUE]
           ELSE ModuleInfoWalk(s1, ((p2 + 3) \div 4) * 4, end)

\* The section contribution loop (lines 435-441).
RECURSIVE SectionContribWalk(_, _, _)
SectionContribWalk(s, pos, end) ==
  IF pos >= end THEN [data |-> s, pos |-> pos, oob |-> FALSE]
  ELSE IF pos + Dbi.Pad2 + 2 > Len(s)
    THEN [data |-> s, pos |-> pos, oob |-> TRUE]
  ELSE SectionContribWalk(
         PokeSeq(PokeSeq(s, pos + Dbi.Pad1, LE16(0)), pos + Dbi.Pad2, LE16(0)),
         pos + Dbi.ContribSize, end)

\* NormalizeDbiStream: ok is the returned bool, data the stream afterwards,
\* oob whether a byte outside the stream was read or written (then the
\* behaviour is undefined and ok and data mean nothing).
NormalizeDbiStream(pdb_age_data, s) ==
  IF Len(s) < Dbi.HeaderSize THEN [ok |-> FALSE, data |-> s, oob |-> FALSE]
  ELSE
    LET s1 == PokeSeq(s, Dbi.Age, LE32(pdb_age_data))
        gp_modi_size == ReadSeqLE32(s1, Dbi.GpModiSize)
        section_contribution_size == ReadSeqLE32(s1, Dbi.SectionContributionSize)
    IN  IF Len(s1) < gp_modi_size THEN [ok |-> FALSE, data |-> s1, oob |-> FALSE]
        ELSE
          LET m == ModuleInfoWalk(s1, Dbi.HeaderSize, Dbi.HeaderSize + gp_modi_size)
              section_contrib_end_pos ==
                gp_modi_size + SizeofDWORD + section_contribution_size
          IN  IF m.oob THEN [ok |-> FALSE, data |-> m.data, oob |-> TRUE]
              ELSE IF Len(s1) < section_contrib_end_pos
                THEN [ok |-> FALSE, data |-> m.data, oob |-> FALSE]
              ELSE
                LET c == SectionContribWalk(m.data, m.pos + 4,
                                            m.pos + 4 + section_contribution_size)
                IN  [ok |-> ~c.oob, data |-> c.data, oob |-> c.oob]

\* The search for the NUL with two bytes of padding at most.
SymbolTailOfTwo(s, end) ==
  IF s[end - 2 + 1] = 0 THEN end - 2
  ELSE end - 1

\* One record of NormalizeSymbolRecordStream (lines 453-482): the first NUL
\* among the bytes end-3 and end-2, else end-1.
SymbolTail(s, end) ==
  IF s[end - 3 + 1] = 0 THEN end - 3
  ELSE IF s[end - 2 + 1] = 0 THEN end - 2
  ELSE end - 1

RECURSIVE SymbolRecordWalk(_, _)
SymbolRecordWalk(s, data) ==
  IF data >= Len(s) THEN [data |-> s, oob |-> FALSE]
  ELSE IF data + 2 > Len(s) THEN [data |-> s, oob |-> TRUE]
  ELSE LET size == ReadSeqLE16(s, data)
           end == data + 2 + size
       IN  IF end > Len(s) \/ end - 3 < 0 THEN [data |-> s, oob |-> TRUE]
           ELSE LET tail == SymbolTail(s, end)
                IN  SymbolRecordWalk(
                      PokeSeq(s, tail, SubSeq(<<0, 0, 0>>, 1, end - tail)), end)

\* NormalizeSymbolRecordStream: always returns true.
NormalizeSymbolRecordStream(s) == SymbolRecordWalk(s, 0)

\* ------------------------------------------------- the file system -------
EmptyPath == [dir |-> "", base |-> ""]
Path(d, b) == [dir |-> d, base |-> b]
\* The directory CreateUniqueTempDirUnderPath makes under output_dir, and
\* the path of the rewritten PDB in it.
TempDir(output_dir) == output_dir \o "/scoped_dir"
TempPath(out_pdb, in_pdb) == [dir |-> TempDir(out_pdb.dir), base |-> in_pdb.base]
TempPaths ==
  { [dir |-> TempDir(d), base |-> b] :
      d \in {"a", "b"}, b \in {"in.pdb", "out.pdb", "out.dll.pdb"} }
Paths ==
  { Path(d, b) : d \in {"a", "b"},
                 b \in {"in.dll", "out.dll", "in.pdb", "out.pdb", "out.dll.pdb"} }
  \cup TempPaths
InImage == Path("a", "in.dll")
InPdb == Path("a", "in.pdb")

NoFile == [kind |-> "none"]
StaleFile == [kind |-> "stale"]
\* At a temporary path: the directory is there and the file is not.
EmptyDir == [kind |-> "dir"]
PeFile(bytes) == [kind |-> "pe", bytes |-> bytes]
PdbOnDisk(streams) == [kind |-> "pdb", streams |-> streams]

\* The streams of the input PDB: old directory, header info, type info,
\* DBI (one module, one section contribution), symbol records, public
\* symbol info, and one more stream.
HeaderStream(guid) ==
  LE32(20000404) \o LE32(Old.Timestamp) \o LE32(Old.Age) \o guid \o <<7, 7, 7, 7>>

DbiStreamBytes ==
  LET header == [i \in 1..Dbi.HeaderSize |-> 200 + (i % 50)]
      h1 == PokeSeq(header, Dbi.Age, LE32(Old.Age))
      h2 == PokeSeq(h1, Dbi.PublicSymbolInfoStream, LE16(5))
      h3 == PokeSeq(h2, Dbi.SymbolRecordStream, LE16(4))
      h4 == PokeSeq(h3, Dbi.GpModiSize, LE32(Dbi.ModuleInfoSize + 4))
      h5 == PokeSeq(h4, Dbi.SectionContributionSize, LE32(Dbi.ContribSize))
      module == [i \in 1..Dbi.ModuleInfoSize |-> 100 + (i % 50)] \o <<97, 0, 98, 0>>
      contrib == [i \in 1..Dbi.ContribSize |-> 150 + i]
  IN  h5 \o module \o <<45, 46, 47, 48>> \o contrib

SymbolRecordBytes == <<10, 0, 14, 17, 1, 2, 3, 4, 97, 98, 0, 88>>

PdbStreams(guid, dbi) ==
  [ i \in 0..6 |->
      CASE i = 0 -> <<9, 9, 9, 9>>
        [] i = 1 -> HeaderStream(guid)
        [] i = 2 -> <<2, 2, 2, 2>>
        [] i = 3 -> dbi
        [] i = 4 -> SymbolRecordBytes
        [] i = 5 -> [k \in 1..32 |-> 60 + k]
        [] OTHER -> <<6, 6, 6>> ]

OtherGuid == [i \in 1..SizeofGuid |-> 99]

PdbKinds == {"match", "mismatch", "absent", "shortdbi"}

InputPdb(kind) ==
  CASE kind = "match" -> PdbOnDisk(PdbStreams(Old.Guid, DbiStreamBytes))
    [] kind = "mismatch" -> PdbOnDisk(PdbStreams(OtherGuid, DbiStreamBytes))
    [] kind = "shortdbi" ->
         PdbOnDisk(PdbStreams(Old.Guid, SubSeq(DbiStreamBytes, 1, Dbi.HeaderSize - 1)))
    [] OTHER -> NoFile

\* ------------------------------------------------- the runs --------------
\* A job is one invocation: the image, the PDB on disk, and the command line.
\* A job is an input image, the command line, the state of the output
\* directory, and whether calls may fail.
CoreImage(im) ==
  /\ im.table = PlainTable /\ im.defect = "none"
  /\ im.export = "nonzero" /\ im.resource = NoDir
  /\ im.debug \in {<< >>, <<IMAGE_DEBUG_TYPE_CODEVIEW>>}

CoreImages == { im \in Images : CoreImage(im) }

CoreJob(j) ==
  /\ j.pdb = "match" /\ j.out \in {"default", "name"} /\ ~j.outPdb /\ ~j.exists
  /\ j.overwrite /\ j.write_image /\ j.write_pdb

\* Every image under the plain command lines, and every command line on
\* the two plainest images; calls fail only where both are plain.
Jobs ==
  [ im : Images, pdbArg : BOOLEAN, pdb : {"match"}, out : {"default", "name"},
    outPdb : {FALSE}, exists : {FALSE}, overwrite : {TRUE}, write_image : {TRUE},
    write_pdb : {TRUE}, faulty : {FALSE} ]
  \cup
  [ im : CoreImages, pdbArg : BOOLEAN, pdb : PdbKinds,
    out : {"default", "same", "dir", "name"}, outPdb : BOOLEAN, exists : BOOLEAN,
    overwrite : BOOLEAN, write_image : BOOLEAN, write_pdb : BOOLEAN,
    faulty : {FALSE} ]
  \cup
  [ im : CoreImages, pdbArg : BOOLEAN, pdb : {"match"}, out : {"default", "name"},
    outPdb : {FALSE}, exists : {FALSE}, overwrite : {TRUE}, write_image : {TRUE},
    write_pdb : {TRUE}, faulty : {TRUE} ]

OutImagePath(j) ==
  CASE j.out = "default" -> EmptyPath
    [] j.out = "same" -> InImage
    [] j.out = "dir" -> Path("b", "in.dll")
    [] OTHER -> Path("b", "out.dll")

OutPdbPath(j) == IF j.outPdb THEN Path("b", "out.pdb") ELSE EmptyPath

InitialFs(j) ==
  [ p \in Paths |->
      IF p = InImage THEN PeFile(ImageBytes(j.im))
      ELSE IF p = InPdb THEN InputPdb(j.pdb)
      ELSE IF j.exists /\ p.dir = "b" THEN StaleFile
      ELSE NoFile ]

VARIABLES
  pc,                  \* the statement the run is at
  img,                 \* the structure of the input image (what the parser finds)
  max_faults,          \* how many calls the environment may fail
  fcl,                 \* the FunctionCallLogger of the memory profiler
  fs,                  \* the files on disk
  input_image_, input_pdb_, output_image_, output_pdb_,
  write_image_, write_pdb_, overwrite_,
  pe_file_addr_space_, \* the patch address space
  pdb_guid_data_,      \* the member the "PDB GUID" entry points to
  pdb_file_,           \* the streams in memory, Null before they are read
  scan,                \* MarkPeFileRanges' locals: i, cv_info_pdb.block() != NULL,
                       \* and the range whose insertion was tried last
  hash,                \* CalculatePdbGuid's locals: file position, cur, bytes fed to MD5
  upd,                 \* UpdateFileInPlace's locals: the entries left to apply,
                       \* and the bytes of the file as it was opened
  faults,              \* the calls that have failed, in order
  result,              \* what Init and Zap returned
  run,                 \* 1: the first run, 2: the run on its outputs
  first                \* what the first run marked, derived and wrote

vars ==
  << pc, img, max_faults, fcl, fs, input_image_, input_pdb_, output_image_, output_pdb_,
     write_image_, write_pdb_, overwrite_, pe_file_addr_space_, pdb_guid_data_,
     pdb_file_, scan, hash, upd, faults, result, run, first >>

\* The contents of the uninitialised GUID member.
JunkGuid == [i \in 1..SizeofGuid |-> 170]

NoPdbFile == [open |-> FALSE, streams |-> << >>]
NoRange == [start |-> NoAddr, size |-> 0]
NoHash == [pos |-> 0, cur |-> 0, ctx |-> << >>, left |-> << >>, end |-> 0]
NoUpd == [left |-> << >>, before |-> << >>]
NoScan == [i |-> 0, cv |-> FALSE, tried |-> NoRange]
NoResult == [init |-> "none", zap |-> "none"]
NoFirst == [space |-> {}, guid |-> << >>, pe |-> NoFile, pdb |-> NoFile]

\* The FunctionCallLogger as it is constructed: no function has an id and
\* no record has been written to the segment; returned is what the last
\* call of GetFunctionId was given and returned.
NoCall == [name |-> "", id |-> 0 - 1]
NoLogger == [function_id_map_ |-> {}, allocation_infos |-> << >>, returned |-> NoCall]

\* The state after construction and the setters, for the job j on the
\* files `files`.
Start(j, files) ==
    /\ pc = "ValidatePeAndPdbFiles"
    /\ img = j.im
    /\ max_faults = IF j.faulty THEN MaxFaults ELSE 0
    /\ fcl = NoLogger
    /\ fs = files
    /\ input_image_ = InImage
    /\ input_pdb_ = IF j.pdbArg THEN InPdb ELSE EmptyPath
    /\ output_image_ = OutImagePath(j)
    /\ output_pdb_ = OutPdbPath(j)
    /\ write_image_ = j.write_image
    /\ write_pdb_ = j.write_pdb
    /\ overwrite_ = j.overwrite
    /\ pe_file_addr_space_ = {}
    /\ pdb_guid_data_ = JunkGuid
    /\ pdb_file_ = NoPdbFile
    /\ scan = NoScan
    /\ hash = NoHash
    /\ upd = NoUpd
    /\ faults = << >>
    /\ result = NoResult
    /\ run = 1
    /\ first = NoFirst

Init == \E j \in Jobs : Start(j, InitialFs(j))

\* ------------------------------------------------- PatchAddressSpace -----
Range(start, size) == [start |-> start, size |-> size]
PatchData(data, name) == [data |-> data, name |-> name]
RangeEnd(r) == r.start + r.size
Intersects(r1, r2) == r1.start < RangeEnd(r2) /\ r2.start < RangeEnd(r1)

\* AddressSpace::Insert: fails, and stores nothing, iff the range
\* intersects a stored range.
CanInsert(space, range) == \A e \in space : ~Intersects(e.range, range)

Insert(space, range, data) ==
  IF CanInsert(space, range)
    THEN [ok |-> TRUE, space |-> space \cup {[range |-> range, data |-> data]}]
  ELSE [ok |-> FALSE, space |-> space]

\* begin() .. end(): the entries by ascending start.
RECURSIVE Ascending(_)
Ascending(space) ==
  IF space = {} THEN << >>
  ELSE LET m == CHOOSE e \in space :
                  \A o \in space : e.range.start <= o.range.start
       IN  <<m>> \o Ascending(space \ {m})

\* What a patch entry's data pointer points to when it is followed.
PointedBytes(data, guid) ==
  CASE data = "timestamp_data_" -> LE32(timestamp_data_)
    [] data = "pdb_age_data_" -> LE32(pdb_age_data_)
    [] OTHER -> guid

\* MarkData without its test of what Insert returned.
MarkDataUnchecked(im, rel_addr, size, data, name, space) ==
  LET file_addr == Translate(im.table, rel_addr)
      range == Range(file_addr, size)
      inserted == Insert(space, range, PatchData(data, name))
  IN  IF file_addr = NoAddr
        THEN [ok |-> FALSE, space |-> space, tried |-> NoRange]
      ELSE [ok |-> TRUE, space |-> inserted.space, tried |-> range]

\* MarkData: ok is the returned bool, tried the range handed to Insert.
MarkData(im, rel_addr, size, data, name, space) ==
  LET file_addr == Translate(im.table, rel_addr)
      range == Range(file_addr, size)
      inserted == Insert(space, range, PatchData(data, name))
  IN  IF file_addr = NoAddr
        THEN [ok |-> FALSE, space |-> space, tried |-> NoRange]
      ELSE IF ~inserted.ok
        THEN [ok |-> FALSE, space |-> inserted.space, tried |-> range]
      ELSE [ok |-> TRUE, space |-> inserted.space, tried |-> range]

\* MarkDataDirectoryTimestamps<T> without its test of a zero TimeDateStamp.
MarkEveryDataDirectoryTimestamp(im, f, dir, rva, deref_fails, data_dir_name, space) ==
  LET data_dir_addr == Translate(im.table, rva)
      timestamp_addr == data_dir_addr + Offsets.DirTimeDateStamp
      range == Range(timestamp_addr, SizeofDWORD)
      inserted == Insert(space, range,
                         PatchData("timestamp_data_", data_dir_name \o " Timestamp"))
  IN  IF dir = NoDir
        THEN [ok |-> TRUE, space |-> space, tried |-> NoRange]
      ELSE IF deref_fails \/ data_dir_addr = NoAddr
        THEN [ok |-> FALSE, space |-> space, tried |-> NoRange]
      ELSE [ok |-> inserted.ok, space |-> inserted.space, tried |-> range]

\* MarkDataDirectoryTimestamps<T>: dir is the directory's state in the
\* image (absent: the NT headers hold no reference to it), rva the address
\* of its block, f the image's bytes.
MarkDataDirectoryTimestamps(im, f, dir, rva, deref_fails, data_dir_name, space) ==
  LET data_dir_addr == Translate(im.table, rva)
      timestamp_addr == data_dir_addr + Offsets.DirTimeDateStamp
      range == Range(timestamp_addr, SizeofDWORD)
      inserted == Insert(space, range,
                         PatchData("timestamp_data_", data_dir_name \o " Timestamp"))
  IN  IF dir = NoDir
        THEN [ok |-> TRUE, space |-> space, tried |-> NoRange]
      ELSE IF deref_fails
        THEN [ok |-> FALSE, space |-> space, tried |-> NoRange]
      ELSE IF data_dir_addr = NoAddr
        THEN [ok |-> FALSE, space |-> space, tried |-> NoRange]
      ELSE IF ReadLE32(f, timestamp_addr) = 0
        THEN [ok |-> TRUE, space |-> space, tried |-> NoRange]
      ELSE IF ~inserted.ok
        THEN [ok |-> FALSE, space |-> inserted.space, tried |-> range]
      ELSE [ok |-> TRUE, space |-> inserted.space, tried |-> range]

\* ------------------------------------------------- Init() ----------------
PathExists(p) == p # EmptyPath /\ fs[p].kind # "none"

\* Init or Zap returns; main stops at the first false.
Return(init, zap) ==
  /\ pc' = "Done"
  /\ result' = [init |-> init, zap |-> zap]

DebugType(im, f, i) ==
  ReadLE32(f, Translate(im.table, DebugElemRva(i) + Offsets.DebugType))

\* pe::PdbInfo::Init: the image file names a PDB in a CodeView record.
HasCodeViewEntry(im, f) ==
  /\ Translate(im.table, CvRva) # NoAddr
  /\ \E i \in 0..(Len(im.debug) - 1) : DebugType(im, f, i) = IMAGE_DEBUG_TYPE_CODEVIEW

PeSignature(im, f) == Slice(f, Translate(im.table, CvRva) + Offsets.CvSignature, SizeofGuid)
PeAge(im, f) == ReadLE32(f, Translate(im.table, CvRva) + Offsets.CvPdbAge)
PdbSignature(streams) ==
  SubSeq(streams[kPdbHeaderInfoStream], Offsets.PdbTimestamp + 9,
         Offsets.PdbTimestamp + 8 + SizeofGuid)
PdbAge(streams) == ReadSeqLE32(streams[kPdbHeaderInfoStream], Offsets.PdbTimestamp + 4)
PdbTimestamp(streams) == ReadSeqLE32(streams[kPdbHeaderInfoStream], Offsets.PdbTimestamp)

\* pe::PeAndPdbAreMatched: the PDB can be read and carries the signature
\* and age of the image's CodeView record.
PeAndPdbAreMatched(im, f, pdb) ==
  /\ HasCodeViewEntry(im, f)
  /\ pdb.kind = "pdb"
  /\ PdbSignature(pdb.streams) = PeSignature(im, f)
  /\ PdbAge(pdb.streams) = PeAge(im, f)

\* pe::FindPdbForModule: the matching PDB beside the image, EmptyPath when
\* there is none.
FindPdbForModule(im, f) ==
  IF PeAndPdbAreMatched(im, f, fs[InPdb]) THEN InPdb ELSE EmptyPath

\* ValidatePeAndPdbFiles accepting an image whose PDB is not found.
ValidatePeAndPdbFilesLenient ==
  /\ pc = "ValidatePeAndPdbFiles"
  /\ LET file == fs[input_image_]
         found == IF input_pdb_ # EmptyPath THEN input_pdb_
                  ELSE FindPdbForModule(img, file.bytes)
     IN  IF file.kind # "pe"
           THEN Return("fail", "none") /\ UNCHANGED input_pdb_
         ELSE IF input_pdb_ = EmptyPath /\ ~HasCodeViewEntry(img, file.bytes)
           THEN pc' = "ValidateOutputPaths" /\ UNCHANGED << input_pdb_, result >>
         ELSE IF found = EmptyPath
           THEN pc' = "ValidateOutputPaths" /\ UNCHANGED << input_pdb_, result >>
         ELSE IF ~PeAndPdbAreMatched(img, file.bytes, fs[found])
           THEN Return("fail", "none") /\ input_pdb_' = found
         ELSE pc' = "ValidateOutputPaths" /\ input_pdb_' = found /\ UNCHANGED result
  /\ UNCHANGED << img, max_faults, fcl, fs, input_image_, output_image_, output_pdb_, write_image_,
                  write_pdb_, overwrite_, pe_file_addr_space_, pdb_guid_data_,
                  pdb_file_, scan, hash, upd, faults, run, first >>

ValidatePeAndPdbFiles ==
  /\ pc = "ValidatePeAndPdbFiles"
  /\ LET file == fs[input_image_]
         found == IF input_pdb_ # EmptyPath THEN input_pdb_
                  ELSE FindPdbForModule(img, file.bytes)
     IN  IF file.kind # "pe"
           THEN Return("fail", "none") /\ UNCHANGED input_pdb_
         ELSE IF input_pdb_ = EmptyPath /\ ~HasCodeViewEntry(img, file.bytes)
           THEN pc' = "ValidateOutputPaths" /\ UNCHANGED << input_pdb_, result >>
         ELSE IF found = EmptyPath
           THEN Return("fail", "none") /\ UNCHANGED input_pdb_
         ELSE IF ~PeAndPdbAreMatched(img, file.bytes, fs[found])
           THEN Return("fail", "none") /\ input_pdb_' = found
         ELSE pc' = "ValidateOutputPaths" /\ input_pdb_' = found /\ UNCHANGED result
  /\ UNCHANGED << img, max_faults, fcl, fs, input_image_, output_image_, output_pdb_, write_image_,
                  write_pdb_, overwrite_, pe_file_addr_space_, pdb_guid_data_,
                  pdb_file_, scan, hash, upd, faults, run, first >>

\* ValidateOutputPaths without its test of the output PDB path.
ValidateOutputImagePath ==
  /\ pc = "ValidateOutputPaths"
  /\ LET out_image == IF output_image_ = EmptyPath THEN input_image_ ELSE output_image_
         out_pdb ==
           IF input_pdb_ = EmptyPath THEN EmptyPath
           ELSE IF output_pdb_ # EmptyPath THEN output_pdb_
           ELSE IF input_image_.base = out_image.base
             THEN Path(out_image.dir, input_pdb_.base)
           ELSE Path(out_image.dir, out_image.base \o ".pdb")
         refused ==
           /\ ~overwrite_
           /\ write_image_ /\ (PathExists(out_image) \/ input_image_ = out_image)
     IN  /\ output_image_' = out_image
         /\ output_pdb_' = out_pdb
         /\ IF refused THEN Return("fail", "none")
            ELSE pc' = "DecomposePeFile" /\ UNCHANGED result
  /\ UNCHANGED << img, max_faults, fcl, fs, input_image_, input_pdb_, write_image_, write_pdb_,
                  overwrite_, pe_file_addr_space_, pdb_guid_data_, pdb_file_, scan,
                  hash, upd, faults, run, first >>

ValidateOutputPaths ==
  /\ pc = "ValidateOutputPaths"
  /\ LET out_image == IF output_image_ = EmptyPath THEN input_image_ ELSE output_image_
         out_pdb ==
           IF input_pdb_ = EmptyPath THEN EmptyPath
           ELSE IF output_pdb_ # EmptyPath THEN output_pdb_
           ELSE IF input_image_.base = out_image.base
             THEN Path(out_image.dir, input_pdb_.base)
           ELSE Path(out_image.dir, out_image.base \o ".pdb")
         refused ==
           /\ ~overwrite_
           /\ \/ write_image_ /\ (PathExists(out_image) \/ input_image_ = out_image)
              \/ /\ write_pdb_ /\ out_pdb # EmptyPath
                 /\ (PathExists(out_pdb) \/ input_pdb_ = out_pdb)
     IN  /\ output_image_' = out_image
         /\ output_pdb_' = out_pdb
         /\ IF refused THEN Return("fail", "none")
            ELSE pc' = "DecomposePeFile" /\ UNCHANGED result
  /\ UNCHANGED << img, max_faults, fcl, fs, input_image_, input_pdb_, write_image_, write_pdb_,
                  overwrite_, pe_file_addr_space_, pdb_guid_data_, pdb_file_, scan,
                  hash, upd, faults, run, first >>

\* What the steps of the scan leave alone.
scanFrame ==
  << img, max_faults, fcl, fs, input_image_, input_pdb_, output_image_, output_pdb_, write_image_,
     write_pdb_, overwrite_, pdb_guid_data_, pdb_file_, hash, upd, faults, run, first >>

DecomposePeFile ==
  /\ pc = "DecomposePeFile"
  /\ IF img.defect = "parse" THEN Return("fail", "none")
     ELSE pc' = "MarkPeFileRanges" /\ UNCHANGED result
  /\ UNCHANGED << scanFrame, pe_file_addr_space_, scan >>

\* MarkPeFileRanges up to the first data directory: the two header casts.
MarkPeFileRanges ==
  /\ pc = "MarkPeFileRanges"
  /\ IF img.defect \in {"dos", "nt"} THEN Return("fail", "none")
     ELSE pc' = "MarkExportDirectory" /\ UNCHANGED result
  /\ UNCHANGED << scanFrame, pe_file_addr_space_, scan >>

\* One marking step: m is what MarkData or MarkDataDirectoryTimestamps
\* returned, next where the scan goes on when it returned true.
Marked(m, next) ==
  /\ pe_file_addr_space_' = m.space
  /\ scan' = [scan EXCEPT !.tried = m.tried]
  /\ IF m.ok THEN pc' = next /\ UNCHANGED result ELSE Return("fail", "none")

MarkExportDirectory ==
  /\ pc = "MarkExportDirectory"
  /\ Marked(MarkDataDirectoryTimestamps(img, fs[input_image_].bytes, img.export,
                                        ExportRva, img.defect = "export",
                                        "Export Directory", pe_file_addr_space_),
            "MarkResourceDirectory")
  /\ UNCHANGED scanFrame

MarkResourceDirectory ==
  /\ pc = "MarkResourceDirectory"
  /\ Marked(MarkDataDirectoryTimestamps(img, fs[input_image_].bytes, img.resource,
                                        ResourceRva, img.defect = "resource",
                                        "Resource Directory", pe_file_addr_space_),
            "MarkDebugDirectory")
  /\ UNCHANGED scanFrame

\* The loop over the debug directory without the test for a second
\* CodeView entry.
MarkDebugDirectoryAnyCodeView ==
  /\ pc = "MarkDebugDirectory"
  /\ IF scan.i >= Len(img.debug)
       THEN /\ pc' = "MarkPdbAge"
            /\ scan' = [scan EXCEPT !.tried = NoRange]
            /\ UNCHANGED << pe_file_addr_space_, result >>
     ELSE
       LET m == MarkData(img, DebugElemRva(scan.i) + Offsets.DebugTimeDateStamp,
                         SizeofDWORD, "timestamp_data_",
                         "Debug Directory " \o ToString(scan.i) \o " Timestamp",
                         pe_file_addr_space_)
           codeview == DebugType(img, fs[input_image_].bytes, scan.i)
                         = IMAGE_DEBUG_TYPE_CODEVIEW
       IN  /\ pe_file_addr_space_' = m.space
           /\ IF ~m.ok \/ (codeview /\ img.defect = "cv")
                THEN /\ Return("fail", "none")
                     /\ scan' = [scan EXCEPT !.tried = m.tried]
              ELSE /\ scan' = [i |-> scan.i + 1, cv |-> scan.cv \/ codeview,
                               tried |-> m.tried]
                   /\ UNCHANGED << pc, result >>
  /\ UNCHANGED scanFrame

\* One turn of the loop over the debug directory, or its end.
MarkDebugDirectory ==
  /\ pc = "MarkDebugDirectory"
  /\ IF scan.i >= Len(img.debug)
       THEN /\ pc' = "MarkPdbAge"
            /\ scan' = [scan EXCEPT !.tried = NoRange]
            /\ UNCHANGED << pe_file_addr_space_, result >>
     ELSE
       LET m == MarkData(img, DebugElemRva(scan.i) + Offsets.DebugTimeDateStamp,
                         SizeofDWORD, "timestamp_data_",
                         "Debug Directory " \o ToString(scan.i) \o " Timestamp",
                         pe_file_addr_space_)
           codeview == DebugType(img, fs[input_image_].bytes, scan.i)
                         = IMAGE_DEBUG_TYPE_CODEVIEW
       IN  /\ pe_file_addr_space_' = m.space
           /\ IF ~m.ok \/ (codeview /\ (scan.cv \/ img.defect = "cv"))
                THEN /\ Return("fail", "none")
                     /\ scan' = [scan EXCEPT !.tried = m.tried]
              ELSE /\ scan' = [i |-> scan.i + 1, cv |-> scan.cv \/ codeview,
                               tried |-> m.tried]
                   /\ UNCHANGED << pc, result >>
  /\ UNCHANGED scanFrame

MarkPdbAge ==
  /\ pc = "MarkPdbAge"
  /\ IF input_pdb_ = EmptyPath
       THEN /\ pc' = "MarkPeChecksum"
            /\ scan' = [scan EXCEPT !.tried = NoRange]
            /\ UNCHANGED << pe_file_addr_space_, result >>
     ELSE IF ~scan.cv
       THEN /\ Return("fail", "none")
            /\ scan' = [scan EXCEPT !.tried = NoRange]
            /\ UNCHANGED pe_file_addr_space_
     ELSE Marked(MarkData(img, CvRva + Offsets.CvPdbAge, SizeofDWORD, "pdb_age_data_",
                          "PDB Age", pe_file_addr_space_),
                 "MarkPdbGuid")
  /\ UNCHANGED scanFrame

MarkPdbGuid ==
  /\ pc = "MarkPdbGuid"
  /\ Marked(MarkData(img, CvRva + Offsets.CvSignature, SizeofGuid, "pdb_guid_data_",
                     "PDB GUID", pe_file_addr_space_),
            "MarkPeChecksum")
  /\ UNCHANGED scanFrame

\* A scan that ends with the marking of the checksum, and Init's branch
\* on input_pdb_.
MarkPeChecksumThenReturn ==
  /\ pc = "MarkPeChecksum"
  /\ LET m == MarkData(img, Lay.Nt + Offsets.NtCheckSum, SizeofDWORD, "NULL",
                       "PE Checksum", pe_file_addr_space_)
     IN  /\ pe_file_addr_space_' = m.space
         /\ scan' = [scan EXCEPT !.tried = m.tried]
         /\ IF ~m.ok THEN Return("fail", "none")
            ELSE IF input_pdb_ # EmptyPath
              THEN pc' = "CalculatePdbGuid" /\ UNCHANGED result
            ELSE pc' = "Zap" /\ result' = [init |-> "ok", zap |-> "none"]
  /\ UNCHANGED scanFrame

MarkPeChecksum ==
  /\ pc = "MarkPeChecksum"
  /\ Marked(MarkData(img, Lay.Nt + Offsets.NtCheckSum, SizeofDWORD, "NULL",
                     "PE Checksum", pe_file_addr_space_),
            "MarkPeTimestamp")
  /\ UNCHANGED scanFrame

\* The last marking of MarkPeFileRanges, in an Init that returns without
\* CalculatePdbGuid and LoadAndUpdatePdbFile.
MarkPeTimestampThenReturn ==
  /\ pc = "MarkPeTimestamp"
  /\ LET m == MarkData(img, Lay.Nt + Offsets.NtTimeDateStamp, SizeofDWORD,
                       "timestamp_data_", "PE Timestamp", pe_file_addr_space_)
     IN  /\ pe_file_addr_space_' = m.space
         /\ scan' = [scan EXCEPT !.tried = m.tried]
         /\ IF ~m.ok THEN Return("fail", "none")
            ELSE pc' = "Zap" /\ result' = [init |-> "ok", zap |-> "none"]
  /\ UNCHANGED scanFrame

\* The last marking of MarkPeFileRanges, and Init's branch on input_pdb_.
MarkPeTimestamp ==
  /\ pc = "MarkPeTimestamp"
  /\ LET m == MarkData(img, Lay.Nt + Offsets.NtTimeDateStamp, SizeofDWORD,
                       "timestamp_data_", "PE Timestamp", pe_file_addr_space_)
     IN  /\ pe_file_addr_space_' = m.space
         /\ scan' = [scan EXCEPT !.tried = m.tried]
         /\ IF ~m.ok THEN Return("fail", "none")
            ELSE IF input_pdb_ # EmptyPath
              THEN pc' = "CalculatePdbGuid" /\ UNCHANGED result
            ELSE pc' = "Zap" /\ result' = [init |-> "ok", zap |-> "none"]
  /\ UNCHANGED scanFrame

\* ------------------------------------------------- CalculatePdbGuid ------
\* The outcomes of a call that may fail: FALSE is success.
MayFail == IF Len(faults) < max_faults THEN {FALSE, TRUE} ELSE {FALSE}
Count(failed, call) == faults' = IF failed THEN Append(faults, call) ELSE faults

Min(a, b) == IF a < b THEN a ELSE b

\* Md5Consume: reads `bytes` bytes of f from position pos in buffers of
\* sizeof(buffer) and feeds them to the MD5 context ctx.
RECURSIVE Md5Consume(_, _, _, _)
Md5Consume(bytes, f, pos, ctx) ==
  IF bytes <= 0 THEN [ok |-> TRUE, pos |-> pos, ctx |-> ctx]
  ELSE LET bytes_to_read == Min(bytes, SizeofBuffer)
           left == IF pos < FileSize(f) THEN FileSize(f) - pos ELSE 0
           bytes_read == Min(bytes_to_read, left)
       IN  IF bytes_read # bytes_to_read
             THEN [ok |-> FALSE, pos |-> pos + bytes_read, ctx |-> ctx]
           ELSE Md5Consume(bytes - bytes_read, f, pos + bytes_read,
                           ctx \o Slice(f, pos, bytes_read))

\* base::MD5Final, as a stand-in digest: sixteen bytes that depend on the
\* length of the input and on every byte and its position.
RECURSIVE WeightedSum(_, _, _, _)
WeightedSum(s, lo, hi, i) ==
  IF lo > hi THEN 0
  ELSE IF lo = hi THEN s[lo] * (((lo + i) % 7) + 1)
  ELSE CHOOSE sum \in { WeightedSum(s, lo, mid, i) + WeightedSum(s, mid + 1, hi, i) :
                         mid \in {(lo + hi) \div 2} } : TRUE

MD5Final(ctx) ==
  CHOOSE digest \in { [i \in 1..SizeofGuid |->
                        (Len(s) + WeightedSum(s, 1, Len(s), i)) % 256] :
                      s \in {ctx} } : TRUE

hashFrame ==
  << img, max_faults, fcl, fs, input_image_, input_pdb_, output_image_, output_pdb_, write_image_,
     write_pdb_, overwrite_, pe_file_addr_space_, pdb_file_, scan, upd, run, first >>

\* CalculatePdbGuid up to its loop: the file is opened and measured.
CalculatePdbGuid ==
  /\ pc = "CalculatePdbGuid"
  /\ \E failed \in MayFail :
       /\ Count(failed, "fopen")
       /\ IF failed
            THEN Return("fail", "none") /\ UNCHANGED hash
          ELSE /\ hash' = [pos |-> 0, cur |-> 0, ctx |-> << >>,
                           left |-> Ascending(pe_file_addr_space_),
                           end |-> FileSize(fs[input_image_].bytes)]
               /\ pc' = "HashRange"
               /\ UNCHANGED result
  /\ UNCHANGED << hashFrame, pdb_guid_data_ >>

\* One turn of the loop over the patch address space.  The result of the
\* fseek past the range is logged and not acted on.
HashRange ==
  /\ pc = "HashRange"
  /\ hash.left # << >>
  /\ \E range \in {Head(hash.left).range} :
       \E c \in { IF hash.cur < range.start
                    THEN Md5Consume(range.start - hash.cur, fs[input_image_].bytes,
                                    hash.pos, hash.ctx)
                  ELSE [ok |-> TRUE, pos |-> hash.pos, ctx |-> hash.ctx] } :
         \E fread_failed \in MayFail, fseek_failed \in MayFail :
           /\ ~(fread_failed /\ fseek_failed)
           /\ fread_failed => hash.cur < range.start
           /\ Count(fread_failed \/ fseek_failed, IF fread_failed THEN "fread" ELSE "fseek(SEEK_CUR)")
           /\ IF fread_failed \/ ~c.ok
                THEN Return("fail", "none") /\ UNCHANGED hash
              ELSE /\ hash' = [hash EXCEPT
                                 !.pos = IF fseek_failed THEN c.pos ELSE c.pos + range.size,
                                 !.ctx = c.ctx,
                                 !.cur = RangeEnd(range),
                                 !.left = Tail(hash.left)]
                   /\ UNCHANGED << pc, result >>
  /\ UNCHANGED << hashFrame, pdb_guid_data_ >>

\* After the loop: the left-over data, and MD5Final into pdb_guid_data_.
HashTail ==
  /\ pc = "HashRange"
  /\ hash.left = << >>
  /\ \E c \in { IF hash.cur < hash.end
                  THEN Md5Consume(hash.end - hash.cur, fs[input_image_].bytes,
                                  hash.pos, hash.ctx)
                ELSE [ok |-> TRUE, pos |-> hash.pos, ctx |-> hash.ctx] } :
       \E fread_failed \in MayFail :
           /\ fread_failed => hash.cur < hash.end
           /\ Count(fread_failed, "fread")
           /\ IF fread_failed \/ ~c.ok
                THEN Return("fail", "none") /\ UNCHANGED << hash, pdb_guid_data_ >>
              ELSE /\ hash' = [hash EXCEPT !.pos = c.pos, !.ctx = c.ctx]
                   /\ pdb_guid_data_' = MD5Final(c.ctx)
                   /\ pc' = "LoadAndUpdatePdbFile"
                   /\ UNCHANGED result
  /\ UNCHANGED hashFrame

\* ------------------------------------------------- LoadAndUpdatePdbFile --
\* UpdatePdbStreams without the ReplaceStream of the old directory.
UpdatePdbStreamsKeepingDirectory(read, guid) ==
  LET s1 == read
      header ==
        WriteSeq(WriteSeq(WriteSeq(s1[kPdbHeaderInfoStream],
                                   Offsets.PdbTimestamp, LE32(timestamp_data_)),
                          Offsets.PdbTimestamp + 4, LE32(pdb_age_data_)),
                 Offsets.PdbTimestamp + 8, guid)
      s2 == [s1 EXCEPT ![kPdbHeaderInfoStream] = header]
      dbi == NormalizeDbiStream(pdb_age_data_, s2[kDbiStream])
      s3 == [s2 EXCEPT ![kDbiStream] = dbi.data]
      symbol_record_stream == ReadSeqLE16(dbi.data, Dbi.SymbolRecordStream)
      public_symbol_info_stream == ReadSeqLE16(dbi.data, Dbi.PublicSymbolInfoStream)
  IN  IF dbi.oob THEN [ok |-> FALSE, undefined |-> TRUE, streams |-> s3]
      ELSE IF ~dbi.ok THEN [ok |-> FALSE, undefined |-> FALSE, streams |-> s3]
      ELSE IF \/ symbol_record_stream \notin DOMAIN s3
              \/ public_symbol_info_stream \notin DOMAIN s3
              \/ s3[symbol_record_stream] = Null
              \/ s3[public_symbol_info_stream] = Null
        THEN [ok |-> FALSE, undefined |-> TRUE, streams |-> s3]
      ELSE
        LET sym == NormalizeSymbolRecordStream(s3[symbol_record_stream])
            s4 == [s3 EXCEPT ![symbol_record_stream] = sym.data]
            s5 == [s4 EXCEPT ![public_symbol_info_stream] =
                     WriteSeq(s4[public_symbol_info_stream], kPubSymPadOffset, LE32(0))]
        IN  IF sym.oob THEN [ok |-> FALSE, undefined |-> TRUE, streams |-> s4]
            ELSE [ok |-> TRUE, undefined |-> FALSE, streams |-> s5]

\* The streams after LoadAndUpdatePdbFile's updates, given the streams
\* PdbReader read: ok is the returned bool, undefined whether the code
\* left the streams (a stream id of the DBI header names no stream, or a
\* normalizer touched bytes outside its stream); the function then
\* returns either bool, or the process ends.
UpdatePdbStreams(read, guid) ==
  LET s1 == [read EXCEPT ![kPdbOldDirectoryStream] = Null]
      header ==
        WriteSeq(WriteSeq(WriteSeq(s1[kPdbHeaderInfoStream],
                                   Offsets.PdbTimestamp, LE32(timestamp_data_)),
                          Offsets.PdbTimestamp + 4, LE32(pdb_age_data_)),
                 Offsets.PdbTimestamp + 8, guid)
      s2 == [s1 EXCEPT ![kPdbHeaderInfoStream] = header]
      dbi == NormalizeDbiStream(pdb_age_data_, s2[kDbiStream])
      s3 == [s2 EXCEPT ![kDbiStream] = dbi.data]
      symbol_record_stream == ReadSeqLE16(dbi.data, Dbi.SymbolRecordStream)
      public_symbol_info_stream == ReadSeqLE16(dbi.data, Dbi.PublicSymbolInfoStream)
  IN  IF dbi.oob THEN [ok |-> FALSE, undefined |-> TRUE, streams |-> s3]
      ELSE IF ~dbi.ok THEN [ok |-> FALSE, undefined |-> FALSE, streams |-> s3]
      ELSE IF \/ symbol_record_stream \notin DOMAIN s3
              \/ public_symbol_info_stream \notin DOMAIN s3
              \/ s3[symbol_record_stream] = Null
              \/ s3[public_symbol_info_stream] = Null
        THEN [ok |-> FALSE, undefined |-> TRUE, streams |-> s3]
      ELSE
        LET sym == NormalizeSymbolRecordStream(s3[symbol_record_stream])
            s4 == [s3 EXCEPT ![symbol_record_stream] = sym.data]
            s5 == [s4 EXCEPT ![public_symbol_info_stream] =
                     WriteSeq(s4[public_symbol_info_stream], kPubSymPadOffset, LE32(0))]
        IN  IF sym.oob THEN [ok |-> FALSE, undefined |-> TRUE, streams |-> s4]
            ELSE [ok |-> TRUE, undefined |-> FALSE, streams |-> s5]

LoadAndUpdatePdbFile ==
  /\ pc = "LoadAndUpdatePdbFile"
  /\ \E failed \in MayFail :
       /\ Count(failed, "PdbReader::Read")
       /\ IF failed \/ fs[input_pdb_].kind # "pdb"
            THEN /\ Return("fail", "none")
                 /\ pdb_file_' = [open |-> TRUE, streams |-> << >>]
          ELSE LET u == UpdatePdbStreams(fs[input_pdb_].streams, pdb_guid_data_)
               IN  /\ pdb_file_' = [open |-> TRUE, streams |-> u.streams]
                   /\ IF u.undefined
                        THEN \E outcome \in {"ok", "fail", "crash"} :
                               IF outcome = "ok"
                                 THEN /\ pc' = "Zap"
                                      /\ result' = [init |-> "ok", zap |-> "none"]
                               ELSE Return(outcome, "none")
                      ELSE IF ~u.ok THEN Return("fail", "none")
                      ELSE pc' = "Zap" /\ result' = [init |-> "ok", zap |-> "none"]
  /\ UNCHANGED << img, max_faults, fcl, fs, input_image_, input_pdb_, output_image_, output_pdb_,
                  write_image_, write_pdb_, overwrite_, pe_file_addr_space_,
                  pdb_guid_data_, scan, hash, upd, run, first >>

\* ------------------------------------------------- Zap() -----------------
zapFrame ==
  << img, max_faults, fcl, input_image_, input_pdb_, output_image_, output_pdb_, write_image_,
     write_pdb_, overwrite_, pe_file_addr_space_, pdb_guid_data_, scan, hash,
     run, first >>

\* Where Zap goes after the image: to the PDB, or to its return.
AfterImage ==
  IF input_pdb_ # EmptyPath /\ write_pdb_
    THEN pc' = "WritePdbFile" /\ UNCHANGED result
  ELSE Return("ok", "ok")

Zap ==
  /\ pc = "Zap"
  /\ IF write_image_ THEN pc' = "WritePeFile" /\ UNCHANGED result
     ELSE AfterImage
  /\ UNCHANGED << zapFrame, fs, pdb_file_, upd, faults >>

\* WritePeFile up to UpdateFileInPlace: the copy to the output path.
WritePeFile ==
  /\ pc = "WritePeFile"
  /\ IF input_image_ # output_image_
       THEN \E failed \in MayFail :
              /\ Count(failed, "CopyFile")
              /\ IF failed THEN Return("ok", "fail") /\ UNCHANGED fs
                 ELSE /\ fs' = [fs EXCEPT ![output_image_] = fs[input_image_]]
                      /\ pc' = "UpdateFileInPlace"
                      /\ UNCHANGED result
     ELSE pc' = "UpdateFileInPlace" /\ UNCHANGED << fs, result, faults >>
  /\ UNCHANGED << zapFrame, pdb_file_, upd >>

\* UpdateFileInPlace up to its loop: the file is opened.
UpdateFileInPlace ==
  /\ pc = "UpdateFileInPlace"
  /\ \E failed \in MayFail :
       /\ Count(failed, "fopen")
       /\ IF failed THEN Return("ok", "fail") /\ UNCHANGED upd
          ELSE /\ upd' = [left |-> Ascending(pe_file_addr_space_),
                           before |-> fs[output_image_].bytes]
               /\ pc' = "UpdateEntry"
               /\ UNCHANGED result
  /\ UNCHANGED << zapFrame, fs, pdb_file_ >>

\* fwrite: the first `written` bytes of the data reach the file.
Fwrite(file, start, bytes, written) ==
  PeFile(Poke(file.bytes, start, SubSeq(bytes, 1, written)))

\* One turn of UpdateFileInPlace's loop.  A failed fseek ends the function
\* with false; a short fwrite is logged and the loop goes on.
UpdateEntry ==
  /\ pc = "UpdateEntry"
  /\ upd.left # << >>
  /\ LET range == Head(upd.left).range
         data == Head(upd.left).data.data
     IN  IF data = "NULL"
           THEN UNCHANGED << pc, result, fs, faults >>
         ELSE \E fseek_failed \in MayFail, fwrite_short \in MayFail :
                /\ ~(fseek_failed /\ fwrite_short)
                /\ Count(fseek_failed \/ fwrite_short,
                         IF fseek_failed THEN "fseek(SEEK_SET)" ELSE "fwrite")
                /\ IF fseek_failed THEN Return("ok", "fail") /\ UNCHANGED fs
                   ELSE /\ \E written \in IF fwrite_short THEN {0, range.size - 1}
                                           ELSE {range.size} :
                             fs' = [fs EXCEPT ![output_image_] =
                                      Fwrite(@, range.start,
                                             PointedBytes(data, pdb_guid_data_), written)]
                        /\ UNCHANGED << pc, result >>
  /\ upd' = [upd EXCEPT !.left = Tail(@)]
  /\ UNCHANGED << zapFrame, pdb_file_ >>

\* pe::PEFileWriter::UpdateFileChecksum, with a stand-in sum: the checksum
\* of the file with its CheckSum field skipped, stored in that field.
\* The sum of the bytes [o, end) of f.
RECURSIVE ByteSum(_, _, _)
ByteSum(f, o, end) ==
  IF o >= end THEN 0
  ELSE IF o + 1 = end THEN f[o + 1]
  ELSE CHOOSE sum \in { ByteSum(f, o, mid) + ByteSum(f, mid, end) :
                         mid \in {(o + end) \div 2} } : TRUE

ChecksumOffset == Lay.Nt + Offsets.NtCheckSum

Checksum(f) ==
  CHOOSE sum \in { (size + ByteSum(f, 0, ChecksumOffset)
                       + ByteSum(f, ChecksumOffset + SizeofDWORD, size)) % 65536 :
                   size \in {FileSize(f)} } : TRUE

\* The end of UpdateFileInPlace's loop and the rest of WritePeFile.
UpdateFileChecksum ==
  /\ pc = "UpdateEntry"
  /\ upd.left = << >>
  /\ \E failed \in MayFail :
       /\ Count(failed, "UpdateFileChecksum")
       /\ IF failed THEN Return("ok", "fail") /\ UNCHANGED fs
          ELSE /\ \E sum \in {LE32(Checksum(fs[output_image_].bytes))} :
                    fs' = [fs EXCEPT ![output_image_] =
                             PeFile(Poke(@.bytes, ChecksumOffset, sum))]
               /\ AfterImage
  /\ UNCHANGED << zapFrame, pdb_file_, upd >>

\* PdbWriter::Write then PdbReader::Read: a null stream is written as an
\* empty one.
WrittenPdb(streams) ==
  PdbOnDisk([i \in DOMAIN streams |-> IF streams[i] = Null THEN << >> ELSE streams[i]])

\* WritePdbFile up to PdbWriter::Write: the temporary directory beside the
\* destination.
WritePdbFile ==
  /\ pc = "WritePdbFile"
  /\ \E failed \in MayFail :
       /\ Count(failed, "CreateUniqueTempDirUnderPath")
       /\ IF failed THEN Return("ok", "fail") /\ UNCHANGED fs
          ELSE /\ fs' = [fs EXCEPT ![TempPath(output_pdb_, input_pdb_)] = EmptyDir]
               /\ pc' = "WriteTemporaryPdb"
               /\ UNCHANGED result
  /\ UNCHANGED << zapFrame, pdb_file_, upd >>

\* PdbWriter::Write to the destination itself.
WritePdbInPlace ==
  /\ pc = "WriteTemporaryPdb"
  /\ \E failed \in MayFail :
       /\ Count(failed, "PdbWriter::Write")
       /\ IF failed
            THEN /\ Return("ok", "fail")
                 /\ fs' = [fs EXCEPT ![TempPath(output_pdb_, input_pdb_)] = NoFile]
                 /\ UNCHANGED pdb_file_
          ELSE /\ fs' = [fs EXCEPT ![output_pdb_] = WrittenPdb(pdb_file_.streams)]
               /\ pdb_file_' = NoPdbFile
               /\ pc' = "ReplaceFile"
               /\ UNCHANGED result
  /\ UNCHANGED << zapFrame, upd >>

\* PdbWriter::Write to the temporary path and pdb_file_.reset(NULL).  When
\* the function returns, temp_dir's destructor deletes the directory.
WriteTemporaryPdb ==
  /\ pc = "WriteTemporaryPdb"
  /\ \E failed \in MayFail :
       /\ Count(failed, "PdbWriter::Write")
       /\ IF failed
            THEN /\ Return("ok", "fail")
                 /\ fs' = [fs EXCEPT ![TempPath(output_pdb_, input_pdb_)] = NoFile]
                 /\ UNCHANGED pdb_file_
          ELSE /\ fs' = [fs EXCEPT ![TempPath(output_pdb_, input_pdb_)] =
                           WrittenPdb(pdb_file_.streams)]
               /\ pdb_file_' = NoPdbFile
               /\ pc' = "ReplaceFile"
               /\ UNCHANGED result
  /\ UNCHANGED << zapFrame, upd >>

\* base::ReplaceFileW of the destination by the temporary PDB, and the
\* return of WritePdbFile.
ReplaceFile ==
  /\ pc = "ReplaceFile"
  /\ \E failed \in MayFail :
       /\ Count(failed, "ReplaceFile")
       /\ IF failed
            THEN /\ Return("ok", "fail")
                 /\ fs' = [fs EXCEPT ![TempPath(output_pdb_, input_pdb_)] = NoFile]
          ELSE /\ fs' = [fs EXCEPT
                           ![output_pdb_] = fs[TempPath(output_pdb_, input_pdb_)],
                           ![TempPath(output_pdb_, input_pdb_)] = NoFile]
               /\ Return("ok", "ok")
  /\ UNCHANGED << zapFrame, pdb_file_, upd >>

\* The tool is run again, in place, on what a successful run with a PDB
\* wrote.  The parser finds the same structure: no patched field is one
\* it reads.
Rerun ==
  /\ pc = "Done"
  /\ run = 1
  /\ result = [init |-> "ok", zap |-> "ok"]
  /\ input_pdb_ # EmptyPath /\ write_image_ /\ write_pdb_
  /\ first' = [space |-> pe_file_addr_space_, guid |-> pdb_guid_data_,
               pe |-> fs[output_image_], pdb |-> fs[output_pdb_]]
  /\ run' = 2
  /\ pc' = "ValidatePeAndPdbFiles"
  /\ input_image_' = output_image_
  /\ input_pdb_' = output_pdb_
  /\ output_image_' = EmptyPath
  /\ output_pdb_' = EmptyPath
  /\ overwrite_' = TRUE
  /\ pe_file_addr_space_' = {}
  /\ pdb_guid_data_' = JunkGuid
  /\ pdb_file_' = NoPdbFile
  /\ scan' = NoScan
  /\ hash' = NoHash
  /\ upd' = NoUpd
  /\ result' = NoResult
  /\ UNCHANGED << img, max_faults, fcl, fs, write_image_, write_pdb_, faults >>

Next ==
  \/ ValidatePeAndPdbFiles
  \/ ValidateOutputPaths
  \/ DecomposePeFile
  \/ MarkPeFileRanges
  \/ MarkExportDirectory
  \/ MarkResourceDirectory
  \/ MarkDebugDirectory
  \/ MarkPdbAge
  \/ MarkPdbGuid
  \/ MarkPeChecksum
  \/ MarkPeTimestamp
  \/ CalculatePdbGuid
  \/ HashRange
  \/ HashTail
  \/ LoadAndUpdatePdbFile
  \/ Zap
  \/ WritePeFile
  \/ UpdateFileInPlace
  \/ UpdateEntry
  \/ UpdateFileChecksum
  \/ WritePdbFile
  \/ WriteTemporaryPdb
  \/ ReplaceFile
  \/ Rerun

Spec == Init /\ [][Next]_vars

\* ------------------------------------------------- the patch ranges ------
\* The steps of the scan that hand a range to Insert.
MarkingSteps ==
  { "MarkExportDirectory", "MarkResourceDirectory", "MarkDebugDirectory",
    "MarkPdbAge", "MarkPdbGuid", "MarkPeChecksum", "MarkPeTimestamp" }

PairwiseDisjoint(space) ==
  \A a \in space : \A b \in space : a # b => ~Intersects(a.range, b.range)

\* One insertion: a range that intersects a stored one is refused, the
\* space stays as it was and Init fails; any other range is stored.
InsertionStep ==
  (pc \in MarkingSteps /\ scan'.tried # NoRange) =>
    IF \E e \in pe_file_addr_space_ : Intersects(e.range, scan'.tried)
      THEN /\ pe_file_addr_space_' = pe_file_addr_space_
           /\ pc' = "Done" /\ result'.init = "fail"
    ELSE \E e \in pe_file_addr_space_' :
           /\ e.range = scan'.tried
           /\ e \notin pe_file_addr_space_
           /\ pe_file_addr_space_' = pe_file_addr_space_ \cup {e}

\* C1: the stored patch ranges are always pairwise disjoint; an insertion
\* whose range intersects a stored range fails, leaves the space unchanged
\* and makes the scan fail, and an insertion whose range is disjoint from
\* (possibly adjacent to) every stored range succeeds.
C1_DisjointRanges ==
  [](PairwiseDisjoint(pe_file_addr_space_)) /\ [][InsertionStep]_vars

\* A scan that failed on a range intersecting a stored one, after an
\* earlier insertion of a range adjacent to a stored one had succeeded.
C1_Witness ==
  /\ pc = "Done" /\ result.init = "fail" /\ scan.tried # NoRange
  /\ \E e \in pe_file_addr_space_ : Intersects(e.range, scan.tried)
  /\ \A e \in pe_file_addr_space_ : e.range # scan.tried

\* ------------------------------------------------- the hashed bytes ------
Covered(space, o) ==
  \E e \in space : e.range.start <= o /\ o < RangeEnd(e.range)

\* The offsets below `below` of a file that no patch range covers.
UncoveredOffsets(space, below) == { o \in 0..(below - 1) : ~Covered(space, o) }

\* ctx holds the bytes of f at the uncovered offsets below `below`, each
\* once and in ascending order of offset.
IsUncoveredBytes(ctx, f, space, below) ==
  LET offsets == UncoveredOffsets(space, below)
  IN  /\ Len(ctx) = Cardinality(offsets)
      /\ \A o \in offsets :
           ctx[Cardinality({ p \in offsets : p < o }) + 1] = f[o + 1]

FailedCalls == { faults[i] : i \in 1..Len(faults) }

HashedUncovered ==
  /\ pc = "HashRange" =>
       IsUncoveredBytes(hash.ctx, fs[input_image_].bytes, pe_file_addr_space_, hash.cur)
  /\ pc = "LoadAndUpdatePdbFile" =>
       /\ IsUncoveredBytes(hash.ctx, fs[input_image_].bytes, pe_file_addr_space_,
                           hash.end)
       /\ pdb_guid_data_ = MD5Final(hash.ctx)

\* C2: the bytes CalculatePdbGuid feeds to MD5 are exactly the bytes of the
\* file at the offsets no patch range covers, each once and in ascending
\* order, the tail after the last range included; no covered byte is hashed.
C2_HashedBytes == HashedUncovered

\* As long as no fseek past a marked range has failed, the bytes fed to MD5
\* are the uncovered ones.
HashedBytesWithoutSeekFailure == "fseek(SEEK_CUR)" \notin FailedCalls => HashedUncovered

\* CalculatePdbGuid returned true after the fseek past a marked range
\* failed, and the digest is not the digest of the uncovered bytes.
C2_Witness ==
  /\ pc = "LoadAndUpdatePdbFile" /\ faults = <<"fseek(SEEK_CUR)">>
  /\ ~IsUncoveredBytes(hash.ctx, fs[input_image_].bytes, pe_file_addr_space_, hash.end)
  /\ \E e \in pe_file_addr_space_ :
       \E i \in 1..Len(hash.ctx) : hash.ctx[i] = fs[input_image_].bytes[e.range.start + 1]

\* ------------------------------------------------- the second run --------
Succeeded == pc = "Done" /\ result = [init |-> "ok", zap |-> "ok"]

\* The second run marked, derived and wrote what the first run did.
SameAsFirst ==
  /\ pe_file_addr_space_ = first.space
  /\ pdb_guid_data_ = first.guid
  /\ fs[output_image_] = first.pe
  /\ fs[output_pdb_] = first.pdb

\* C3: Init and Zap on the outputs of a successful run mark the same patch
\* ranges, derive the same GUID and write a PE and a PDB that are byte for
\* byte the outputs of the first run.
C3_FixedPoint == (run = 2 /\ Succeeded) => SameAsFirst

\* When no call has failed in either run, the second run repeats the first.
FixedPointWithoutFailure == (run = 2 /\ Succeeded /\ faults = << >>) => SameAsFirst

\* Both runs returned true, the first after a short fwrite, and the second
\* run's image is not the first run's.
C3_Witness ==
  /\ run = 2 /\ Succeeded /\ faults = <<"fwrite">>
  /\ pe_file_addr_space_ = first.space
  /\ fs[output_image_] # first.pe

\* ------------------------------------------------- the outputs -----------
WithPdb == input_pdb_ # EmptyPath
OutPe == fs[output_image_].bytes
OutPdb == fs[output_pdb_].streams
DbiAge(streams) == ReadSeqLE32(streams[kDbiStream], Dbi.Age)

SameSignature ==
  (Succeeded /\ WithPdb) =>
    /\ pdb_guid_data_ = MD5Final(hash.ctx)
    /\ write_image_ => PeSignature(img, OutPe) = pdb_guid_data_
    /\ write_pdb_ => PdbSignature(OutPdb) = pdb_guid_data_

\* C4: after a successful run with a PDB, the sixteen bytes of the PE
\* CodeView record's signature equal the sixteen bytes of the PDB header's
\* signature, and both are the digest CalculatePdbGuid produced.
C4_SameSignature == SameSignature

\* Without a short fwrite the two signatures are the digest.
SameSignatureWithoutShortWrite == "fwrite" \notin FailedCalls => SameSignature

\* A run that returned true after a short fwrite of the "PDB GUID" entry:
\* the PDB carries the digest and the image does not.
C4_Witness ==
  /\ Succeeded /\ WithPdb /\ write_image_ /\ write_pdb_ /\ faults = <<"fwrite">>
  /\ PdbSignature(OutPdb) = pdb_guid_data_
  /\ PeSignature(img, OutPe) # pdb_guid_data_

SameAge ==
  (Succeeded /\ WithPdb) =>
    /\ write_image_ => PeAge(img, OutPe) = pdb_age_data_
    /\ write_pdb_ => PdbAge(OutPdb) = pdb_age_data_ /\ DbiAge(OutPdb) = pdb_age_data_

\* C5: after a successful run with a PDB, the age in the PE CodeView
\* record, the age in the PDB header info stream and the age in the DBI
\* header are equal, and equal to 1.
C5_SameAge == SameAge /\ pdb_age_data_ = 1

\* Without a short fwrite the three ages are 1.
SameAgeWithoutShortWrite == "fwrite" \notin FailedCalls => SameAge

\* A run that returned true after a short fwrite of the "PDB Age" entry:
\* the PDB's ages are 1 and the image's is not.
C5_Witness ==
  /\ Succeeded /\ WithPdb /\ write_image_ /\ write_pdb_ /\ faults = <<"fwrite">>
  /\ PdbAge(OutPdb) = 1 /\ DbiAge(OutPdb) = 1
  /\ PeAge(img, OutPe) # 1

\* The value of the DWORD of the output image at the relative address rva.
OutDWORD(rva) == ReadLE32(OutPe, Translate(img.table, rva))

SameTimestamp ==
  Succeeded =>
    /\ write_image_ =>
         /\ OutDWORD(Lay.Nt + Offsets.NtTimeDateStamp) = timestamp_data_
         /\ img.export = "nonzero" =>
              OutDWORD(ExportRva + Offsets.DirTimeDateStamp) = timestamp_data_
         /\ img.resource = "nonzero" =>
              OutDWORD(ResourceRva + Offsets.DirTimeDateStamp) = timestamp_data_
         /\ \A i \in 0..(Len(img.debug) - 1) :
              OutDWORD(DebugElemRva(i) + Offsets.DebugTimeDateStamp) = timestamp_data_
    /\ (WithPdb /\ write_pdb_) => PdbTimestamp(OutPdb) = timestamp_data_

\* C6: in the outputs of a successful run, FileHeader.TimeDateStamp, every
\* Export or Resource directory TimeDateStamp that was not zero in the
\* input, every Debug Directory entry's TimeDateStamp and the PDB header's
\* timestamp hold 1262304000, whatever they held in the input.
C6_SameTimestamp == SameTimestamp /\ timestamp_data_ = 1262304000

\* Without a short fwrite every timestamp is the constant.
SameTimestampWithoutShortWrite == "fwrite" \notin FailedCalls => SameTimestamp

\* A run that returned true after a short fwrite of the "PE Timestamp"
\* entry: FileHeader.TimeDateStamp is not the constant.
C6_Witness ==
  /\ Succeeded /\ write_image_ /\ faults = <<"fwrite">>
  /\ OutDWORD(Lay.Nt + Offsets.NtTimeDateStamp) # timestamp_data_

\* ------------------------------------------------- the entries -----------
Entry(rva, size, data, name) ==
  [ range |-> Range(Translate(img.table, rva), size), data |-> PatchData(data, name) ]

\* The directory is there and its TimeDateStamp in the input is not zero.
HasTimestamp(dir, rva) ==
  /\ dir # NoDir
  /\ ReadLE32(fs[input_image_].bytes,
              Translate(img.table, rva + Offsets.DirTimeDateStamp)) # 0

ExpectedEntries ==
  { Entry(Lay.Nt + Offsets.NtTimeDateStamp, SizeofDWORD, "timestamp_data_", "PE Timestamp"),
    Entry(Lay.Nt + Offsets.NtCheckSum, SizeofDWORD, "NULL", "PE Checksum") }
  \cup { Entry(DebugElemRva(i) + Offsets.DebugTimeDateStamp, SizeofDWORD, "timestamp_data_",
               "Debug Directory " \o ToString(i) \o " Timestamp") :
           i \in 0..(Len(img.debug) - 1) }
  \cup ( IF HasTimestamp(img.export, ExportRva)
           THEN { Entry(ExportRva + Offsets.DirTimeDateStamp, SizeofDWORD,
                        "timestamp_data_", "Export Directory Timestamp") }
         ELSE {} )
  \cup ( IF HasTimestamp(img.resource, ResourceRva)
           THEN { Entry(ResourceRva + Offsets.DirTimeDateStamp, SizeofDWORD,
                        "timestamp_data_", "Resource Directory Timestamp") }
         ELSE {} )
  \cup ( IF WithPdb
           THEN { Entry(CvRva + Offsets.CvSignature, SizeofGuid, "pdb_guid_data_", "PDB GUID"),
                  Entry(CvRva + Offsets.CvPdbAge, SizeofDWORD, "pdb_age_data_", "PDB Age") }
         ELSE {} )

\* MarkPeFileRanges has returned true in this run.
Scanned ==
  \/ pc \in { "CalculatePdbGuid", "HashRange", "LoadAndUpdatePdbFile", "Zap", "WritePeFile",
              "UpdateFileInPlace", "UpdateEntry", "WritePdbFile", "WriteTemporaryPdb",
              "ReplaceFile" }
  \/ pc = "Done" /\ result.init = "ok"

\* C7: after a successful scan the patch address space holds exactly the
\* FileHeader.TimeDateStamp, the OptionalHeader.CheckSum, one TimeDateStamp
\* per Debug Directory element, the Export (Resource) directory
\* TimeDateStamp iff that directory exists and its TimeDateStamp is not
\* zero, and the CodeView signature and pdb_age iff a PDB is involved.
C7_ExactEntries == Scanned => pe_file_addr_space_ = ExpectedEntries

\* A scan with a PDB of an image without an export directory, with a
\* resource directory whose TimeDateStamp is zero, and with two debug
\* directory entries.
C7_Witness ==
  /\ pc = "CalculatePdbGuid"
  /\ img.export = NoDir /\ img.resource = "zero" /\ Len(img.debug) = 2
  /\ Cardinality(pe_file_addr_space_) = 6

\* ------------------------------------------------- the patched file ------
\* UpdateFileInPlace is past its loop and about to return true.
Patched == pc = "UpdateEntry" /\ upd.left = << >>

\* The entry is one UpdateFileInPlace skips: its data pointer is NULL.
ComputedLater(e) == e.data.data = "NULL"

\* The offset is one UpdateFileInPlace has no data for.
NotPatched(space, o) ==
  \A e \in space :
    (e.range.start <= o /\ o < RangeEnd(e.range)) => ComputedLater(e)

PatchedInsideRanges ==
  Patched =>
    /\ Len(OutPe) = Len(upd.before)
    /\ \A o \in 0..(Len(OutPe) - 1) :
         NotPatched(pe_file_addr_space_, o) => OutPe[o + 1] = upd.before[o + 1]
    /\ \A e \in pe_file_addr_space_ :
         ~ComputedLater(e) =>
           Slice(OutPe, e.range.start, e.range.size)
             = PointedBytes(e.data.data, pdb_guid_data_)

\* C8: when UpdateFileInPlace returns true, every byte no patch range
\* covers and every byte of a range whose data is NULL is the byte the
\* file had before, and every range with data holds that data's
\* range.size bytes.
C8_PatchedInsideRanges == PatchedInsideRanges

\* Without a short fwrite the file is patched as described.
PatchedInsideRangesWithoutShortWrite ==
  "fwrite" \notin FailedCalls => PatchedInsideRanges

\* UpdateFileInPlace returns true after a short fwrite: a range with data
\* does not hold it, and every byte outside the ranges is as before.
C8_Witness ==
  /\ Patched /\ faults = <<"fwrite">>
  /\ \E e \in pe_file_addr_space_ :
       /\ ~ComputedLater(e)
       /\ Slice(OutPe, e.range.start, e.range.size)
            # PointedBytes(e.data.data, pdb_guid_data_)
  /\ \E e \in pe_file_addr_space_ : ComputedLater(e)
  /\ \A o \in 0..(Len(OutPe) - 1) :
       NotPatched(pe_file_addr_space_, o) => OutPe[o + 1] = upd.before[o + 1]

\* ------------------------------------------------- failures of the patch -
\* The last call that failed is one of UpdateFileInPlace's loop.
LastFailed(calls) == faults # << >> /\ faults[Len(faults)] \in calls

\* Zap returned false.
ZapFailed == pc = "Done" /\ result.zap = "fail"

\* Once the call has failed, UpdateFileInPlace, WritePeFile and Zap have
\* returned false, and UpdateFileChecksum does not write to the file.
ReturnedFalse(calls) == LastFailed(calls) => ZapFailed
NoChecksumAfter(calls) == (Patched /\ fs' # fs) => ~LastFailed(calls)

\* C9: a short fwrite or a failed fseek on any patch entry makes
\* UpdateFileInPlace return false, WritePeFile return false without
\* calling UpdateFileChecksum, and Zap return false.
C9_FatalInPatch ==
  /\ [](ReturnedFalse({"fwrite", "fseek(SEEK_SET)"}))
  /\ [][NoChecksumAfter({"fwrite", "fseek(SEEK_SET)"})]_vars

\* A failed fseek is fatal.
SeekFailureIsFatal ==
  /\ [](ReturnedFalse({"fseek(SEEK_SET)"}))
  /\ [][NoChecksumAfter({"fseek(SEEK_SET)"})]_vars

\* Zap returned true after a short fwrite, the checksum updater having
\* run on the file.
C9_Witness ==
  /\ Succeeded /\ LastFailed({"fwrite"}) /\ faults = <<"fwrite">>
  /\ ReadLE32(OutPe, ChecksumOffset) = Checksum(OutPe)

\* ------------------------------------------------- the order of the steps -
\* The steps of CalculatePdbGuid, which reads the patch address space.
HashingSteps == { "CalculatePdbGuid", "HashRange" }

\* The steps of Zap; those of UpdateFileInPlace read the space.
ZapSteps ==
  { "Zap", "WritePeFile", "UpdateFileInPlace", "UpdateEntry", "WritePdbFile",
    "WriteTemporaryPdb", "ReplaceFile" }

\* The steps from the first read of the space to the end of the run.
ReadingSteps == HashingSteps \cup {"LoadAndUpdatePdbFile"} \cup ZapSteps

\* CalculatePdbGuid has run to its end: every range was passed, the tail
\* was read and pdb_guid_data_ is the digest.
Hashed ==
  /\ hash.end = FileSize(fs[input_image_].bytes)
  /\ hash.left = << >>
  /\ pdb_guid_data_ = MD5Final(hash.ctx)

\* The hasher starts on a space that holds the "PDB GUID" range.
GuidRangeMarked ==
  pc \in HashingSteps =>
    \E e \in pe_file_addr_space_ :
      e.data = PatchData("pdb_guid_data_", "PDB GUID")

\* One step of a run (the start of the second run empties the space).
OrderedStep ==
  /\ (pe_file_addr_space_' # pe_file_addr_space_ /\ run' = run) =>
       pc \in MarkingSteps
  /\ pc \in ReadingSteps =>
       /\ pe_file_addr_space_' = pe_file_addr_space_
       /\ pc' \in ReadingSteps \cup {"Done"}
  /\ pc \in HashingSteps => fs' = fs
  /\ fs' # fs =>
       /\ pc \in ZapSteps
       /\ WithPdb => Hashed

\* C10: in every run the insertions into the patch address space, the
\* "PDB GUID" range included, come before CalculatePdbGuid starts; the
\* space does not change while or after CalculatePdbGuid or
\* UpdateFileInPlace read it; and CalculatePdbGuid has finished before
\* the first byte of a file is written.
C10_Ordering == [](GuidRangeMarked) /\ [][OrderedStep]_vars

\* UpdateFileInPlace has changed the image of a run with a PDB: the hash
\* is complete and the space is the one the hasher read.
C10_Witness ==
  /\ pc = "UpdateEntry" /\ WithPdb /\ Hashed
  /\ OutPe # upd.before
  /\ Ascending(pe_file_addr_space_) # << >>
  /\ \E e \in pe_file_addr_space_ :
       e.data = PatchData("pdb_guid_data_", "PDB GUID")

\* ------------------------------------------------- CodeView and the PDB --
HasCv == HasCodeViewEntry(img, fs[input_image_].bytes)

InitFailed == pc = "Done" /\ result.init = "fail"

\* ValidatePeAndPdbFiles is entered without a PDB path, for an image that
\* can be read and has a CodeView entry.
NoPdbRequested ==
  /\ pc = "ValidatePeAndPdbFiles"
  /\ input_pdb_ = EmptyPath
  /\ fs[input_image_].kind = "pe"
  /\ HasCv

\* The scan is past the marking of the CodeView record.
PastCodeView ==
  \/ pc \in {"MarkPeChecksum", "MarkPeTimestamp"} \cup ReadingSteps
  \/ pc = "Done" /\ result.init = "ok"

IsMarked(name) == \E e \in pe_file_addr_space_ : e.data.name = name

\* With a PDB path and no CodeView entry, Init fails.
PdbNeedsCodeView ==
  (WithPdb /\ ~HasCv) => (pc = "ValidatePeAndPdbFiles" \/ InitFailed)

\* Without a PDB path the scan marks neither the signature nor the age.
UnmarkedWithoutPdb ==
  (PastCodeView /\ ~WithPdb) => (~IsMarked("PDB GUID") /\ ~IsMarked("PDB Age"))

\* Validation lets the image through with the PDB path still empty.
GoesOnWithoutPdb ==
  NoPdbRequested => (pc' = "ValidateOutputPaths" /\ input_pdb_' = EmptyPath)

\* Validation finds the matching PDB and goes on with it, or fails.
FindsPdbOrFails ==
  NoPdbRequested =>
    \/ /\ pc' = "ValidateOutputPaths"
       /\ input_pdb_' = InPdb
       /\ PeAndPdbAreMatched(img, fs[input_image_].bytes, fs[InPdb])
    \/ /\ pc' = "Done" /\ result'.init = "fail"
       /\ input_pdb_' = EmptyPath
       /\ ~PeAndPdbAreMatched(img, fs[input_image_].bytes, fs[InPdb])

\* C11 as stated: with a PDB and no CodeView entry Init fails; with a
\* CodeView entry and no PDB asked for, the run goes on without a PDB and
\* marks neither the CodeView signature nor pdb_age.
C11_CodeViewWithoutPdb ==
  /\ [](PdbNeedsCodeView /\ UnmarkedWithoutPdb)
  /\ [][GoesOnWithoutPdb]_vars

\* C11 amended: with a PDB and no CodeView entry Init fails; with a
\* CodeView entry and no PDB asked for, ValidatePeAndPdbFiles finds the
\* matching PDB and Init goes on with it, or Init fails; the signature and
\* pdb_age are marked exactly when the scan is passed with a PDB, which is
\* when the image has a CodeView entry.
C11_CodeViewNeedsPdb ==
  /\ [](PdbNeedsCodeView /\ UnmarkedWithoutPdb)
  /\ [](PastCodeView =>
          /\ WithPdb <=> HasCv
          /\ WithPdb => (IsMarked("PDB GUID") /\ IsMarked("PDB Age")))
  /\ [][FindsPdbOrFails]_vars

\* Init has failed in ValidatePeAndPdbFiles for an image with a CodeView
\* entry: no PDB was asked for and none was found.
C11_Witness ==
  /\ InitFailed /\ run = 1
  /\ input_pdb_ = EmptyPath
  /\ fs[input_image_].kind = "pe" /\ HasCv
  /\ pe_file_addr_space_ = {}

\* ------------------------------------------------- the streams of the PDB -
\* LoadAndUpdatePdbFile has returned true and the PDB is still in memory.
Loaded == pc \in ZapSteps /\ WithPdb /\ pdb_file_.open

ReadStreams == fs[input_pdb_].streams
symbol_record_stream == ReadSeqLE16(pdb_file_.streams[kDbiStream], Dbi.SymbolRecordStream)
public_symbol_info_stream ==
  ReadSeqLE16(pdb_file_.streams[kDbiStream], Dbi.PublicSymbolInfoStream)

\* The streams LoadAndUpdatePdbFile's statements name.
Rewritten ==
  { kPdbOldDirectoryStream, kPdbHeaderInfoStream, kDbiStream, symbol_record_stream }

\* Every stream outside `touched` is the stream that was read.
PassedThrough(touched) ==
  /\ DOMAIN pdb_file_.streams = DOMAIN ReadStreams
  /\ pdb_file_.streams[kPdbOldDirectoryStream] = Null
  /\ \A i \in DOMAIN ReadStreams \ touched : pdb_file_.streams[i] = ReadStreams[i]

\* C12 as stated: after LoadAndUpdatePdbFile, stream 0 is a null stream
\* and every stream but streams 0 and 1, the DBI stream and the symbol
\* record stream holds the bytes read from the input PDB.
C12_OtherStreamsPassedThrough == Loaded => PassedThrough(Rewritten)

\* C12 amended: the public symbol info stream is rewritten as well; it
\* holds the bytes read but for the DWORD at offset 24, which is 0.
C12_StreamsPassedThrough ==
  Loaded =>
    /\ PassedThrough(Rewritten \cup {public_symbol_info_stream})
    /\ public_symbol_info_stream \notin Rewritten =>
         pdb_file_.streams[public_symbol_info_stream]
           = WriteSeq(ReadStreams[public_symbol_info_stream], kPubSymPadOffset, LE32(0))

\* The PDB is loaded; its public symbol info stream is not the one read,
\* and a stream LoadAndUpdatePdbFile never names is.
C12_Witness ==
  /\ Loaded
  /\ pdb_file_.streams[public_symbol_info_stream] # ReadStreams[public_symbol_info_stream]
  /\ ReadStreams[kPdbOldDirectoryStream] # Null
  /\ \E i \in DOMAIN ReadStreams \ (Rewritten \cup {public_symbol_info_stream}) :
       pdb_file_.streams[i] = ReadStreams[i] /\ ReadStreams[i] # << >>

\* ------------------------------------------------- the PDBs on disk ------
\* The concatenation of the sequences f[1], .., f[n].
RECURSIVE Concat(_, _)
Concat(f, n) == IF n = 0 THEN << >> ELSE Concat(f, n - 1) \o f[n]

\* The two NUL terminated strings after a DbiModuleInfoBase.
ModuleNames ==
  { <<0, 0>>, <<97, 0, 0>>, <<97, 0, 98, 0>>, <<97, 98, 0, 99, 0>> }

\* One module info record: the base, the two names, and what the linker
\* left up to the next multiple of 4.
ModuleRecord(names) ==
  [i \in 1..Dbi.ModuleInfoSize |-> 100 + (i % 50)] \o names
    \o SubSeq(<<77, 78, 79>>, 1, (4 - (Len(names) % 4)) % 4)

ModuleLists == UNION { [1..n -> ModuleNames] : n \in 0..MaxModules }

ModuleBytes(mods) == Concat([i \in 1..Len(mods) |-> ModuleRecord(mods[i])], Len(mods))

ContribBytes(n) == Concat([i \in 1..n |-> [k \in 1..Dbi.ContribSize |-> 150 + i + k]], n)

\* A DBI stream: the header, the module information, the signature of the
\* section contributions, n section contributions and what follows them.
\* modules and contribs are the offsets at which its records start.
DbiInput(mods, n, rest) ==
  LET modi == ModuleBytes(mods)
      header ==
        PokeSeq(PokeSeq(SubSeq(DbiStreamBytes, 1, Dbi.HeaderSize),
                        Dbi.GpModiSize, LE32(Len(modi))),
                Dbi.SectionContributionSize, LE32(n * Dbi.ContribSize))
  IN  [ bytes |-> header \o modi \o <<45, 46, 47, 48>> \o ContribBytes(n) \o rest,
        modules |-> { Dbi.HeaderSize + Len(ModuleBytes(SubSeq(mods, 1, i - 1))) :
                        i \in 1..Len(mods) },
        contribs |-> { Dbi.HeaderSize + Len(modi) + 4 + (i - 1) * Dbi.ContribSize :
                         i \in 1..n },
        gp_modi_size |-> Len(modi),
        section_contribution_size |-> n * Dbi.ContribSize ]

\* The well-formed DBI streams of the model.
DbiInputs ==
  { DbiInput(mods, n, rest) :
      mods \in ModuleLists, n \in 0..MaxContribs, rest \in {<< >>, <<33, 34, 35>>} }

\* DBI streams that end before what their header announces.
CutLengths(d) ==
  { len \in { Dbi.HeaderSize, d.gp_modi_size - 1, d.gp_modi_size,
              Dbi.HeaderSize + d.gp_modi_size - 1, Dbi.HeaderSize + d.gp_modi_size,
              d.gp_modi_size + 4 + d.section_contribution_size - 1,
              d.gp_modi_size + 4 + d.section_contribution_size,
              Len(d.bytes) - 1 } :
      Dbi.HeaderSize <= len /\ len < Len(d.bytes) }

CutDbiInputs ==
  UNION { { [d EXCEPT !.bytes = SubSeq(d.bytes, 1, len)] : len \in CutLengths(d) } :
          d \in { DbiInput(mods, MaxContribs + 1, << >>) :
                    mods \in {<< >>, << <<97, 0, 98, 0>> >>} } }

\* Symbol records: the length, the type, and a body that ends with the
\* end of a name and up to three bytes the linker left after it.
SymbolRecords ==
  { <<2, 0, 14, 17>>, <<10, 0, 14, 17, 9, 9, 102, 111, 111, 0, 88, 88>> }
  \cup { <<6, 0, 14, 17, 102, a, b, c>> : a \in {0, 88}, b \in {0, 88}, c \in {0, 88} }

\* Up to MaxRecords records: any record after records without a name or
\* with the longest one.
SymbolLists ==
  { << >> } \cup
  { prefix \o <<r>> :
      prefix \in UNION { [1..n -> { <<2, 0, 14, 17>>,
                                    <<10, 0, 14, 17, 9, 9, 102, 111, 111, 0, 88, 88>> }] :
                         n \in 0..(MaxRecords - 1) },
      r \in SymbolRecords }

SymbolInput(records) == Concat(records, Len(records))

\* The PDBs of the second specification: each matches the image, and has
\* either the DBI stream or the symbol record stream of the first
\* specification's PDB.
PdbInputs ==
  { PdbStreams(Old.Guid, d.bytes) : d \in DbiInputs \cup CutDbiInputs }
  \cup { [PdbStreams(Old.Guid, DbiStreamBytes) EXCEPT ![4] = SymbolInput(records)] :
           records \in SymbolLists }

PdbJobs ==
  [ im : { im \in CoreImages : im.debug # << >> }, pdbArg : {TRUE}, pdb : {"match"},
    out : {"name"}, outPdb : {FALSE}, exists : {FALSE}, overwrite : {TRUE},
    write_image : {TRUE}, write_pdb : {TRUE}, faulty : {FALSE} ]

PdbInit ==
  \E j \in PdbJobs, streams \in PdbInputs :
    Start(j, [InitialFs(j) EXCEPT ![InPdb] = PdbOnDisk(streams)])

\* The runs of the tool on one image and every PDB of PdbInputs.
PdbSpec == PdbInit /\ [][Next]_vars

\* ------------------------------------------------- the DBI stream --------
\* The PDB has been read and LoadAndUpdatePdbFile is past its updates.
Updated == pdb_file_.open /\ pdb_file_.streams # << >>

InputDbi == fs[input_pdb_].streams[kDbiStream]

\* The DBI stream d with the age set to pdb_age_data_, the offsets of every
\* module info record and pad1 and pad2 of every section contribution set
\* to 0, and every other byte as it is.
NormalDbi(d) ==
  [ i \in 1..Len(d.bytes) |->
      IF Dbi.Age < i /\ i <= Dbi.Age + SizeofDWORD
        THEN LE32(pdb_age_data_)[i - Dbi.Age]
      ELSE IF \E m \in d.modules :
                m + Dbi.ModuleOffsets < i /\ i <= m + Dbi.ModuleOffsets + SizeofDWORD
        THEN 0
      ELSE IF \E c \in d.contribs :
                i - 1 - c \in {Dbi.Pad1, Dbi.Pad1 + 1, Dbi.Pad2, Dbi.Pad2 + 1}
        THEN 0
      ELSE d.bytes[i] ]

\* C13: for a well-formed DBI stream NormalizeDbiStream returns true, and
\* the stream then has the age 1, the offsets field of every module info
\* record 0, pad1 and pad2 of every section contribution 0, and every other
\* byte (the names, the other fields, the signature, what follows the
\* section contributions) as it was read.
C13_DbiNormalized ==
  \A d \in DbiInputs :
    (Updated /\ InputDbi = d.bytes) =>
      /\ result.init = "ok"
      /\ pdb_file_.streams[kDbiStream] = NormalDbi(d)

\* A DBI stream with two module info records whose names end off a
\* multiple of 4, two section contributions and bytes after them has been
\* normalized.
C13_Witness ==
  /\ Updated /\ pc = "Zap"
  /\ InputDbi = DbiInput(<< <<97, 0, 0>>, <<97, 98, 0, 99, 0>> >>, 2, <<33, 34, 35>>).bytes
  /\ pdb_file_.streams[kDbiStream] # InputDbi
  /\ SubSeq(pdb_file_.streams[kDbiStream], Len(InputDbi) - 2, Len(InputDbi)) = <<33, 34, 35>>

\* ------------------------------------------------- short DBI streams -----
gp_modi_size(s) == ReadSeqLE32(s, Dbi.GpModiSize)
section_contribution_size(s) == ReadSeqLE32(s, Dbi.SectionContributionSize)

\* The stream has a header and is shorter than the header's gp_modi_size,
\* or than gp_modi_size + 4 + section_contribution_size.
ShorterThanAnnounced(s) ==
  /\ Len(s) >= Dbi.HeaderSize
  /\ \/ Len(s) < gp_modi_size(s)
     \/ Len(s) < gp_modi_size(s) + SizeofDWORD + section_contribution_size(s)

\* The module information the header announces lies inside the stream.
ModuleInfoAddressable(s) == Len(s) >= Dbi.HeaderSize + gp_modi_size(s)

\* C14: for a DBI stream shorter than gp_modi_size, or than gp_modi_size +
\* 4 + section_contribution_size, NormalizeDbiStream returns false and
\* Init fails.
C14_ShortDbiFails ==
  (Updated /\ ShorterThanAnnounced(InputDbi)) => InitFailed

\* The two tests do reject a stream that is shorter than gp_modi_size, and
\* one shorter than the second size whose module information is inside it.
ShortDbiFailsWhenAddressable ==
  ( /\ Updated /\ ShorterThanAnnounced(InputDbi)
    /\ (Len(InputDbi) < gp_modi_size(InputDbi) \/ ModuleInfoAddressable(InputDbi)) )
  => InitFailed

\* Init has returned true on a DBI stream of gp_modi_size bytes: the module
\* information loop ran past the stream's end before the second test.
C14_Witness ==
  /\ Updated /\ pc = "Zap" /\ result.init = "ok"
  /\ Len(InputDbi) = gp_modi_size(InputDbi)
  /\ ShorterThanAnnounced(InputDbi)
  /\ ~ModuleInfoAddressable(InputDbi)

\* ------------------------------------------------- the symbol records ----
InputSymbols == fs[input_pdb_].streams[symbol_record_stream]

\* The record has a body after its type, and the NUL that ends its name is
\* among the last three bytes.
NameEndsInTail(r) ==
  Len(r) > 4 /\ \E k \in (Len(r) - 2)..Len(r) : r[k] = 0

\* The record with every byte after that NUL set to 0.
Padded(r) ==
  LET nul == CHOOSE k \in (Len(r) - 2)..Len(r) :
                 r[k] = 0 /\ \A l \in (Len(r) - 2)..(k - 1) : r[l] # 0
  IN  [ i \in 1..Len(r) |-> IF i > nul THEN 0 ELSE r[i] ]

\* C15: NormalizeSymbolRecordStream leaves every byte of a record up to and
\* including the NUL that ends its name, found among the record's last
\* three bytes, and sets every byte after it up to the record's end to 0.
C15_TailPadded ==
  \A records \in SymbolLists :
    (Updated /\ InputSymbols = SymbolInput(records)) =>
      \A i \in 1..Len(records) :
        NameEndsInTail(records[i]) =>
          Slice(pdb_file_.streams[symbol_record_stream],
                Len(SymbolInput(SubSeq(records, 1, i - 1))), Len(records[i]))
            = Padded(records[i])

\* A stream of the records "foo" NUL X X and "f" NUL X X has been
\* normalized: they end "foo" NUL NUL NUL and "f" NUL NUL NUL.
C15_Witness ==
  /\ Updated /\ pc = "Zap"
  /\ InputSymbols = <<10, 0, 14, 17, 9, 9, 102, 111, 111, 0, 88, 88,
                      6, 0, 14, 17, 102, 0, 88, 88>>
  /\ pdb_file_.streams[symbol_record_stream]
       = <<10, 0, 14, 17, 9, 9, 102, 111, 111, 0, 0, 0,
           6, 0, 14, 17, 102, 0, 0, 0>>

\* ------------------------------------------------- the written PDB -------
PdbWritingSteps == { "WritePdbFile", "WriteTemporaryPdb", "ReplaceFile" }

NoTemporary(files) == \A p \in TempPaths : files[p] = NoFile

\* One step of WritePdbFile: when it returns false the destination is as
\* it was and no temporary directory is left; the destination changes
\* only in a ReplaceFile that succeeds, to the temporary PDB.
AllOrNothing ==
  pc \in PdbWritingSteps =>
    /\ (pc' = "Done" /\ result'.zap = "fail") =>
         (fs'[output_pdb_] = fs[output_pdb_] /\ NoTemporary(fs'))
    /\ fs'[output_pdb_] # fs[output_pdb_] =>
         /\ pc = "ReplaceFile" /\ pc' = "Done" /\ result'.zap = "ok"
         /\ fs'[output_pdb_] = fs[TempPath(output_pdb_, input_pdb_)]
         /\ NoTemporary(fs')
    /\ \A p \in Paths \ (TempPaths \cup {output_pdb_}) : fs'[p] = fs[p]

\* C16: when a step of WritePdbFile fails (the temporary directory, the
\* temporary PDB, the replace) the file at the output PDB path is what it
\* was before, or still absent, and the temporary directory is removed;
\* only a replace that succeeds changes the file at the output path.
C16_AllOrNothing ==
  /\ [](pc \notin {"WriteTemporaryPdb", "ReplaceFile"} => NoTemporary(fs))
  /\ [][AllOrNothing]_vars

\* WritePdbFile has returned false after the replace failed, in place: the
\* input PDB is as it was read and no temporary directory is left.
C16_Witness ==
  /\ pc = "Done" /\ result.zap = "fail" /\ run = 1
  /\ faults = <<"ReplaceFile">>
  /\ output_pdb_ = input_pdb_
  /\ fs[output_pdb_] = InputPdb("match")
  /\ NoTemporary(fs)

\* ------------------------------------------------- overwrite -------------
\* ValidateOutputPaths has returned true in this run.
OutputsValidated ==
  pc \notin {"ValidatePeAndPdbFiles", "ValidateOutputPaths"} /\ ~InitFailed

\* The output image path is free: no file is there and it is not the input.
ImagePathFree == ~PathExists(output_image_) /\ output_image_ # input_image_

PdbPathFree ==
  output_pdb_ # EmptyPath => (~PathExists(output_pdb_) /\ output_pdb_ # input_pdb_)

\* No step changes a file that was there when the run started: the inputs
\* and what the output directory held.
PreexistingKept ==
  ~overwrite_ =>
    /\ fs'[InImage] = fs[InImage]
    /\ fs'[InPdb] = fs[InPdb]
    /\ \A p \in Paths : fs[p] = StaleFile => fs'[p] = StaleFile

\* C17 as stated: without overwrite, ValidateOutputPaths returns false
\* whenever the output image or the output PDB exists or is its input, no
\* file that was there is changed, and a run whose output image is the
\* input image fails.
C17_NoOverwrite ==
  /\ []((pc = "DecomposePeFile" /\ ~overwrite_) => (ImagePathFree /\ PdbPathFree))
  /\ []((OutputsValidated /\ ~overwrite_) => output_image_ # input_image_)
  /\ [][PreexistingKept]_vars

\* C17 amended: the two tests are made for the files the run is to write,
\* the image with write_image_ and the PDB with write_pdb_.
C17_NoOverwriteOfWritten ==
  /\ []((pc = "DecomposePeFile" /\ ~overwrite_) =>
          /\ write_image_ => ImagePathFree
          /\ write_pdb_ => PdbPathFree)
  /\ []((OutputsValidated /\ ~overwrite_ /\ write_image_) =>
          output_image_ # input_image_)
  /\ [][PreexistingKept]_vars

\* Init has failed in ValidateOutputPaths: overwrite is off, the image is
\* written by default to its own path, and the PDB would be as well.
C17_Witness ==
  /\ InitFailed /\ ~overwrite_ /\ write_pdb_ /\ WithPdb
  /\ output_image_ = input_image_
  /\ output_pdb_ = input_pdb_
  /\ pe_file_addr_space_ = {}

\* ------------------------------------------------- FunctionCallLogger ----
\* The function names of the test.
FunctionNames == {"foo", "bar", "baz", "TestEmitDetailedFunctionCall"}

\* GetFunctionId without the lookup of the name.
GetFunctionIdUnchecked(map, name) ==
  [ id |-> Cardinality(map),
    map |-> map \cup {<<name, Cardinality(map)>>},
    emitted |-> << [record_type |-> "TraceFunctionNameTableEntry", name |-> name] >> ]

\* FunctionCallLogger::GetFunctionId on the map `map`: the id, the map
\* afterwards and the records emitted.
GetFunctionId(map, name) ==
  IF \E e \in map : e[1] = name
    THEN [ id |-> (CHOOSE e \in map : e[1] = name)[2], map |-> map, emitted |-> << >> ]
  ELSE [ id |-> Cardinality(map),
         map |-> map \cup {<<name, Cardinality(map)>>},
         emitted |-> << [record_type |-> "TraceFunctionNameTableEntry", name |-> name] >> ]

\* The state of the tool while the logger is exercised: it has not run.
ToolIdle ==
  /\ pc = "FunctionCallLogger"
  /\ img = [ table |-> PlainTable, export |-> NoDir, resource |-> NoDir,
            debug |-> << >>, defect |-> "none" ]
  /\ max_faults = 0
  /\ fs = [p \in Paths |-> NoFile]
  /\ input_image_ = EmptyPath /\ input_pdb_ = EmptyPath
  /\ output_image_ = EmptyPath /\ output_pdb_ = EmptyPath
  /\ write_image_ = TRUE /\ write_pdb_ = TRUE /\ overwrite_ = FALSE
  /\ pe_file_addr_space_ = {}
  /\ pdb_guid_data_ = JunkGuid
  /\ pdb_file_ = NoPdbFile
  /\ scan = NoScan /\ hash = NoHash /\ upd = NoUpd
  /\ faults = << >>
  /\ result = NoResult
  /\ run = 1
  /\ first = NoFirst

toolFrame ==
  << pc, img, max_faults, fs, input_image_, input_pdb_, output_image_, output_pdb_,
     write_image_, write_pdb_, overwrite_, pe_file_addr_space_, pdb_guid_data_,
     pdb_file_, scan, hash, upd, faults, result, run, first >>

LoggerInit == ToolIdle /\ fcl = NoLogger

\* A call of GetFunctionId, as the test makes it.
CallGetFunctionId ==
  /\ Len(fcl.allocation_infos) < MaxAllocations
  /\ \E name \in FunctionNames :
       LET call == GetFunctionId(fcl.function_id_map_, name)
       IN  fcl' = [ function_id_map_ |-> call.map,
                    allocation_infos |-> fcl.allocation_infos \o call.emitted,
                    returned |-> [name |-> name, id |-> call.id] ]
  /\ UNCHANGED toolFrame

\* EMIT_DETAILED_FUNCTION_CALL: the id of the calling function, then the
\* TraceDetailedFunctionCall record that carries it.
EmitDetailedFunctionCall ==
  /\ Len(fcl.allocation_infos) + 1 < MaxAllocations
  /\ LET call == GetFunctionId(fcl.function_id_map_, "TestEmitDetailedFunctionCall")
     IN  fcl' = [ function_id_map_ |-> call.map,
                  allocation_infos |->
                    (fcl.allocation_infos \o call.emitted)
                      \o << [record_type |-> "TraceDetailedFunctionCall",
                             function_id |-> call.id] >>,
                  returned |-> [name |-> "TestEmitDetailedFunctionCall", id |-> call.id] ]
  /\ UNCHANGED toolFrame

LoggerNext == CallGetFunctionId \/ EmitDetailedFunctionCall

LoggerSpec == LoggerInit /\ [][LoggerNext]_vars

\* ------------------------------------------------- function ids ----------
\* The TraceFunctionNameTableEntry records among the records written.
NameRecords(infos) ==
  SelectSeq(infos, LAMBDA r : r.record_type = "TraceFunctionNameTableEntry")

\* Every name of the map has one id, and the ids are 0, 1, .. in the order
\* of the names' first calls; the last call returned its name's id.
OneIdPerName ==
  /\ \A a \in fcl.function_id_map_ : \A b \in fcl.function_id_map_ :
       (a[1] = b[1] \/ a[2] = b[2]) => a = b
  /\ { e[2] : e \in fcl.function_id_map_ } = 0..(Cardinality(fcl.function_id_map_) - 1)
  /\ fcl.returned # NoCall =>
       <<fcl.returned.name, fcl.returned.id>> \in fcl.function_id_map_
  /\ Len(NameRecords(fcl.allocation_infos)) = Cardinality(fcl.function_id_map_)

\* One call of GetFunctionId, with the name and the id in fcl'.returned.
IdStep ==
  (pc = "FunctionCallLogger" /\ fcl'.returned # NoCall) =>
    LET name == fcl'.returned.name
        id == fcl'.returned.id
        map == fcl.function_id_map_
    IN  IF \E e \in map : e[1] = name
          THEN /\ <<name, id>> \in map
               /\ fcl'.function_id_map_ = map
               /\ NameRecords(fcl'.allocation_infos) = NameRecords(fcl.allocation_infos)
        ELSE /\ id = Cardinality(map)
             /\ fcl'.function_id_map_ = map \cup {<<name, id>>}
             /\ Cardinality(fcl'.function_id_map_) = Cardinality(map) + 1
             /\ NameRecords(fcl'.allocation_infos)
                  = Append(NameRecords(fcl.allocation_infos),
                           [record_type |-> "TraceFunctionNameTableEntry", name |-> name])

Inserted == pe_file_addr_space_' \ pe_file_addr_space_

\* Within one run nothing is inserted once the entry `name` is stored.
NothingInsertedAfter(name) ==
  (IsMarked(name) /\ run' = run) => Inserted = {}

\* The entry of the checksum is inserted when every entry of the scan but
\* the FileHeader.TimeDateStamp is stored, and that one is inserted next.
ChecksumThenTimestamp ==
  /\ (pc = "MarkPeChecksum" /\ Inserted # {}) =>
       /\ Inserted =
            { Entry(Lay.Nt + Offsets.NtCheckSum, SizeofDWORD, "NULL", "PE Checksum") }
       /\ pe_file_addr_space_' =
            ExpectedEntries \ { Entry(Lay.Nt + Offsets.NtTimeDateStamp, SizeofDWORD,
                                      "timestamp_data_", "PE Timestamp") }
       /\ pc' = "MarkPeTimestamp"
  /\ (IsMarked("PE Checksum") /\ run' = run /\ Inserted # {}) =>
       /\ pc = "MarkPeTimestamp"
       /\ Inserted =
            { Entry(Lay.Nt + Offsets.NtTimeDateStamp, SizeofDWORD,
                    "timestamp_data_", "PE Timestamp") }

\* C19: the OptionalHeader.CheckSum entry is the last entry the scan
\* inserts into the patch address space: nothing is inserted after it.
C19_ChecksumInsertedLast == [][NothingInsertedAfter("PE Checksum")]_vars

\* C19, as the code has it: the OptionalHeader.CheckSum entry is inserted
\* after every other entry but the FileHeader.TimeDateStamp, which is the
\* last entry inserted; a scan that succeeded has stored both.
C19_TimestampInsertedLast ==
  /\ [](Scanned => (IsMarked("PE Checksum") /\ IsMarked("PE Timestamp")))
  /\ [](IsMarked("PE Timestamp") => IsMarked("PE Checksum"))
  /\ [][ChecksumThenTimestamp /\ NothingInsertedAfter("PE Timestamp")]_vars

\* The scan of an image with an export directory, a debug directory and a
\* CodeView record has stored the checksum entry and then the timestamp.
C19_Witness ==
  /\ pc = "CalculatePdbGuid"
  /\ IsMarked("PE Checksum") /\ IsMarked("PE Timestamp")
  /\ IsMarked("PDB GUID") /\ IsMarked("Export Directory Timestamp")
  /\ scan.tried = Range(Translate(img.table, Lay.Nt + Offsets.NtTimeDateStamp), SizeofDWORD)

\* ------------------------------------------------- two CodeView entries --
\* The elements of the image's Debug Directory of type CodeView.
CodeViewEntries ==
  { i \in 0..(Len(img.debug) - 1) :
      DebugType(img, fs[input_image_].bytes, i) = IMAGE_DEBUG_TYPE_CODEVIEW }

TwoCodeViews == Cardinality(CodeViewEntries) >= 2

\* The run is in Init, not past the loop over the Debug Directory, or
\* Init has returned false.
NotPastDebugDirectory ==
  \/ pc \in { "ValidatePeAndPdbFiles", "ValidateOutputPaths", "DecomposePeFile",
              "MarkPeFileRanges", "MarkExportDirectory", "MarkResourceDirectory",
              "MarkDebugDirectory" }
  \/ InitFailed

\* No GUID was computed and no PDB was loaded.
NothingDerived ==
  /\ pdb_guid_data_ = JunkGuid
  /\ hash = NoHash
  /\ pdb_file_ = NoPdbFile

\* The loop is at an element of type CodeView with one found before.
AtSecondCodeView ==
  /\ pc = "MarkDebugDirectory"
  /\ scan.i \in CodeViewEntries
  /\ scan.cv

\* The scan returns false at the second CodeView entry; no file changes.
AbortsAtSecondCodeView ==
  /\ AtSecondCodeView => (pc' = "Done" /\ result'.init = "fail")
  /\ TwoCodeViews => fs' = fs

\* C20: on an image whose Debug Directory holds two entries of type
\* IMAGE_DEBUG_TYPE_CODEVIEW the scan aborts at the second: MarkPeFileRanges
\* and Init return false, no GUID is computed, no PDB is loaded and no file
\* is written.
C20_TwoCodeViewsAbort ==
  /\ [](TwoCodeViews => (NotPastDebugDirectory /\ NothingDerived))
  /\ [][AbortsAtSecondCodeView]_vars

\* Init has returned false from the loop's second turn, at the second
\* CodeView entry, with the first turn's timestamp marked.
C20_Witness ==
  /\ TwoCodeViews
  /\ InitFailed
  /\ scan.i = 1 /\ scan.cv
  /\ IsMarked("Debug Directory 0 Timestamp")
  /\ img.defect = "none"

\* ------------------------------------------------- the DBI walks ---------
\* LoadAndUpdatePdbFile is about to hand the DBI stream PdbReader reads to
\* NormalizeDbiStream, and the stream holds a DbiHeader.
DbiHeaderRead ==
  /\ pc = "LoadAndUpdatePdbFile"
  /\ fs[input_pdb_].kind = "pdb"
  /\ Len(InputDbi) >= Dbi.HeaderSize

\* NormalizeDbiStream touches a byte at or past the end of the stream s.
LeavesStream(s) == NormalizeDbiStream(pdb_age_data_, s).oob

\* C21: on every DBI stream that holds a DbiHeader, whatever its
\* gp_modi_size and section_contribution_size, NormalizeDbiStream returns
\* the failure or walks the module information and the section
\* contributions inside the stream: it reads and writes no byte at or past
\* the stream's end.
C21_DbiWalksInsideStream == DbiHeaderRead => ~LeavesStream(InputDbi)

\* The walks stay inside a stream that holds what its header announces.
WellFormedDbiWalkedInside ==
  \A d \in DbiInputs : (DbiHeaderRead /\ InputDbi = d.bytes) => ~LeavesStream(d.bytes)

\* The process has ended in LoadAndUpdatePdbFile on a DBI stream that is
\* as long as its gp_modi_size: the module information loop left it.
C21_Witness ==
  /\ pc = "Done" /\ result.init = "crash"
  /\ fs[input_pdb_].kind = "pdb"
  /\ Len(InputDbi) >= Dbi.HeaderSize
  /\ Len(InputDbi) >= gp_modi_size(InputDbi)
  /\ LeavesStream(InputDbi)

\* ------------------------------------------------- the record framing ----
\* The bytes of the record r the normalizer may change: the last three of
\* the body after the size and the type.
MayChange(r, k) == k > 4 /\ k > Len(r) - 3

\* The records as NormalizeSymbolRecordStream left them: the stream is as
\* long as it was read, no byte outside it was touched, and in every
\* record that `covered` holds of, every byte but the last three of the
\* body is as it was read.
FramingKept(records, covered(_)) ==
  /\ ~NormalizeSymbolRecordStream(SymbolInput(records)).oob
  /\ Len(pdb_file_.streams[symbol_record_stream]) = Len(SymbolInput(records))
  /\ \A i \in 1..Len(records) :
       covered(records[i]) =>
         LET r == records[i]
             out == Slice(pdb_file_.streams[symbol_record_stream],
                          Len(SymbolInput(SubSeq(records, 1, i - 1))), Len(r))
         IN  \A k \in 1..Len(r) : ~MayChange(r, k) => out[k] = r[k]

AnyRecord(r) == TRUE
HasBody(r) == Len(r) > 4

\* C22: on a stream of records with size >= 2 and size + 2 a multiple of
\* 4, NormalizeSymbolRecordStream changes at most the last three bytes of
\* each record's body: every size field and every symbol type is as it was
\* read, the stream has the same records, and no byte outside the stream
\* is written.
C22_FramingKept ==
  \A records \in SymbolLists :
    (Updated /\ InputSymbols = SymbolInput(records)) => FramingKept(records, AnyRecord)

\* The same holds of the records that have a body after the type.
FramingKeptWithBody ==
  \A records \in SymbolLists :
    (Updated /\ InputSymbols = SymbolInput(records)) => FramingKept(records, HasBody)

\* A record of size 2 (the type alone) before a record with a name has
\* been normalized: its type is 0, the record after it is padded.
C22_Witness ==
  /\ Updated /\ pc = "Zap"
  /\ InputSymbols = <<2, 0, 14, 17, 6, 0, 14, 17, 102, 0, 88, 88>>
  /\ pdb_file_.streams[symbol_record_stream]
       = <<2, 0, 0, 0, 6, 0, 14, 17, 102, 0, 0, 0>>

====
